---- MODULE Spec2Model ----
(***************************************************************************)
(* RealistikGDPS: the bounded in-memory caches (rgdps/utilities/cache),    *)
(* the level repository with its MeiliSearch mirror (ognisko/resources)    *)
(* and the plain relational repositories (rgdps/repositories).             *)
(***************************************************************************)
EXTENDS Integers, Sequences, FiniteSets, TLC

(***************************************************************************)
(* Bounds of the model.                                                    *)
(***************************************************************************)
NumKeys == 3
MaxCapacity == 2

MaxRows == 2
MaxCalls == 3
MaxMsgs == 2
MaxObjects == 3

VARIABLES
    capacity,   \* LRUMemoryCache._capacity / LRUAsyncMemoryCache._capacity
    cache,      \* LRUMemoryCache._cache: the dict, in insertion order
    acache,     \* LRUAsyncMemoryCache._cache, driven by the same calls
    scache,     \* SimpleMemoryCache._cache, driven by the same calls
    sacache,    \* SimpleAsyncMemoryCache._cache, driven by the same calls
    recency,    \* history: the keys held, least recently accessed first
    lastOp,     \* history: the last cache call and what it returned
    repo,       \* the repository the calls of this behaviour go to
    sequential, \* TRUE: every call returns before the next one starts
    found_rows, \* the MySQL connection counts matched (TRUE) or changed rows
    levels,     \* table levels: the row with id i is levels[i]
    meili,      \* MeiliSearch index "levels": document id -> document
    req,        \* per caller: the repository coroutine it is suspended in
    sync,       \* the levels:sync_meili handler's coroutine
    pre,        \* history: the stores as they were when the running call began
    user_relationships, \* table user_relationships
    user_likes,         \* table user_likes
    daily_chests,       \* table daily_chests
    user_comments,      \* table user_comments
    faulted,    \* history: some store call has failed
    ncalls,     \* history: the number of calls begun
    marked,     \* history: the ids an update_partial has marked deleted
    rebuilt,    \* history: the rebuilds completed since a store was last written
    bus,        \* the pubsub channel, each process's subscriber loop, and their history
    acct,       \* table accounts, account_repo and the callers of account.from_id
    mem         \* the objects that are cache values, and the one the caller holds

cacheVars == <<capacity, cache, acache, scache, sacache, recency, lastOp>>

tables == <<user_relationships, user_likes, daily_chests, user_comments>>

repoVars == <<repo, sequential, found_rows, levels, meili, req, sync, pre, faulted, ncalls,
              marked, rebuilt, bus, acct, mem, tables>>

\* what no call on the level repository touches
restVars == <<cacheVars, tables, bus, acct, mem>>

idleVars == <<restVars, marked, rebuilt>>

vars == <<capacity, cache, acache, scache, sacache, recency, lastOp,
          repo, sequential, found_rows, levels, meili, req, sync, pre, faulted, ncalls,
          marked, rebuilt, bus, acct, mem, user_relationships, user_likes, daily_chests,
          user_comments>>

(***************************************************************************)
(* Keys and values.  A KeyType is an int or a str; the caches address      *)
(* their dict by str(key).                                                 *)
(***************************************************************************)
None == "None"

Digits == <<"0", "1", "2", "3", "4", "5", "6", "7", "8", "9">>

RECURSIVE IntToStr(_)
IntToStr(n) ==
    IF n < 10 THEN Digits[n + 1]
    ELSE IntToStr(n \div 10) \o Digits[(n % 10) + 1]

IntKey(n) == [t |-> "int", n |-> n, s |-> ""]
StrKey(s) == [t |-> "str", n |-> 0, s |-> s]

RawKeys == {IntKey(n) : n \in 1..NumKeys} \cup {StrKey(IntToStr(n)) : n \in 1..NumKeys}

CacheValues == {None, "a", "b"}

\* variant: the key as given, an int apart from the str of its digits
KeyAsGiven(key) == IF key.t = "int" THEN "int " \o IntToStr(key.n) ELSE key.s

_ensure_key_type(key) == IF key.t = "int" THEN IntToStr(key.n) ELSE key.s

(***************************************************************************)
(* A dict is a sequence of entries [k, v] without repeated keys, oldest    *)
(* insertion first: what iterating a Python dict yields.                   *)
(***************************************************************************)
DictKeys(d) == {d[i].k : i \in 1..Len(d)}

DictKeySeq(d) == [i \in 1..Len(d) |-> d[i].k]

DictGet(d, k) ==
    IF k \in DictKeys(d)
    THEN (CHOOSE e \in {d[i] : i \in 1..Len(d)} : e.k = k).v
    ELSE None

DictDel(d, k) == SelectSeq(d, LAMBDA e : e.k # k)

\* d[k] = v: an existing key keeps its place, a new key goes last
DictSetItem(d, k, v) ==
    IF k \in DictKeys(d)
    THEN [i \in 1..Len(d) |-> IF d[i].k = k THEN [k |-> k, v |-> v] ELSE d[i]]
    ELSE Append(d, [k |-> k, v |-> v])

\* del d[next(iter(d))]
EvictOne(d) == DictDel(d, d[1].k)

RECURSIVE EvictLoop(_, _)
EvictLoop(d, cap) ==
    IF Len(d) >= cap /\ Len(d) > 0 THEN EvictLoop(EvictOne(d), cap) ELSE d

(***************************************************************************)
(* LRUMemoryCache                                                          *)
(***************************************************************************)
LRUGetNoRefresh(d, key) == d

LRUGet(d, key) ==
    LET key_str == _ensure_key_type(key)
        value == DictGet(d, key_str)
    IN  IF value # None
        THEN DictSetItem(DictDel(d, key_str), key_str, value)
        ELSE d

LRUGetReturn(d, key) == DictGet(d, _ensure_key_type(key))

\* variant: set without the eviction loop
LRUSetNoEvict(d, cap, key, value) == DictSetItem(d, _ensure_key_type(key), value)

LRUSetEvictNewest(d, cap, key, value) ==
    DictSetItem(IF Len(d) >= cap THEN SubSeq(d, 1, Len(d) - 1) ELSE d,
                _ensure_key_type(key), value)

LRUSet(d, cap, key, value) ==
    DictSetItem(EvictLoop(d, cap), _ensure_key_type(key), value)

LRUDelete(d, key) == DictDel(d, _ensure_key_type(key))

(***************************************************************************)
(* LRUAsyncMemoryCache: the same three methods as coroutines.              *)
(***************************************************************************)
LRUAsyncGet(d, key) ==
    LET key_str == _ensure_key_type(key)
        value == DictGet(d, key_str)
    IN  IF value # None
        THEN DictSetItem(DictDel(d, key_str), key_str, value)
        ELSE d

LRUAsyncGetReturn(d, key) == DictGet(d, _ensure_key_type(key))

LRUAsyncSet(d, cap, key, value) ==
    DictSetItem(EvictLoop(d, cap), _ensure_key_type(key), value)

LRUAsyncDelete(d, key) == DictDel(d, _ensure_key_type(key))

(***************************************************************************)
(* SimpleMemoryCache and SimpleAsyncMemoryCache: a dict without a bound.   *)
(* The values of these behaviours are None and strs, which copy() hands    *)
(* back as they are.                                                       *)
(***************************************************************************)
SimpleGetReturn(d, key) ==
    LET obj_db == DictGet(d, _ensure_key_type(key))
    IN  IF obj_db = None THEN None ELSE obj_db

SimpleSet(d, key, value) == DictSetItem(d, _ensure_key_type(key), value)

SimpleDelete(d, key) == DictDel(d, _ensure_key_type(key))

SimpleAsyncGetReturn(d, key) == DictGet(d, _ensure_key_type(key))

SimpleAsyncSet(d, key, value) == DictSetItem(d, _ensure_key_type(key), value)

SimpleAsyncDelete(d, key) == DictDel(d, _ensure_key_type(key))

(***************************************************************************)
(* History of accesses, kept apart from the dicts: a key enters at the     *)
(* most recent end when an entry for it is inserted and moves there when   *)
(* a get returns its value; set first drops least recent keys while the    *)
(* count is at or above capacity.                                          *)
(***************************************************************************)
SeqWithout(s, x) == SelectSeq(s, LAMBDA y : y # x)

RECURSIVE DropOldest(_, _)
DropOldest(r, cap) ==
    IF Len(r) >= cap /\ Len(r) > 0 THEN DropOldest(Tail(r), cap) ELSE r

RecencyAfterSet(r, cap, k) ==
    LET kept == DropOldest(r, cap)
    IN  IF \E i \in 1..Len(kept) : kept[i] = k THEN kept ELSE Append(kept, k)

RecencyAfterGet(r, k, ret) ==
    IF ret # None THEN Append(SeqWithout(r, k), k) ELSE r

\* history: whether the call before this one was a set of a key with the
\* same string form, and then the type of that key and the value set
NoPrevSet == [t |-> "", value |-> None]

PrevSet(key) ==
    IF lastOp.op = "set" /\ _ensure_key_type(lastOp.key) = _ensure_key_type(key)
    THEN [t |-> lastOp.key.t, value |-> lastOp.value]
    ELSE NoPrevSet

(***************************************************************************)
(* The cache calls.  Each call is made on both LRU caches.                 *)
(***************************************************************************)
CacheInit ==
    /\ capacity \in 1..MaxCapacity
    /\ cache = <<>>
    /\ acache = <<>>
    /\ scache = <<>>
    /\ sacache = <<>>
    /\ recency = <<>>
    /\ lastOp = [op |-> "init", key |-> IntKey(1), value |-> None, ret |-> None,
                 aret |-> None, prevSet |-> NoPrevSet,
                 present |-> FALSE, size |-> 0]

CacheGet(key) ==
    /\ cache' = LRUGet(cache, key)
    /\ acache' = LRUAsyncGet(acache, key)
    /\ UNCHANGED <<scache, sacache>>
    /\ recency' = RecencyAfterGet(recency, _ensure_key_type(key), LRUGetReturn(cache, key))
    /\ lastOp' = [op |-> "get", key |-> key, value |-> None,
                  ret |-> LRUGetReturn(cache, key),
                  aret |-> LRUAsyncGetReturn(acache, key), prevSet |-> PrevSet(key),
                  present |-> _ensure_key_type(key) \in DictKeys(cache),
                  size |-> Len(cache)]
    /\ UNCHANGED <<capacity, repoVars>>

CacheSet(key, value) ==
    /\ cache' = LRUSet(cache, capacity, key, value)
    /\ acache' = LRUAsyncSet(acache, capacity, key, value)
    /\ UNCHANGED <<scache, sacache>>
    /\ recency' = RecencyAfterSet(recency, capacity, _ensure_key_type(key))
    /\ lastOp' = [op |-> "set", key |-> key, value |-> value, ret |-> None,
                  aret |-> None, prevSet |-> PrevSet(key),
                  present |-> _ensure_key_type(key) \in DictKeys(cache),
                  size |-> Len(cache)]
    /\ UNCHANGED <<capacity, repoVars>>

CacheDelete(key) ==
    /\ cache' = LRUDelete(cache, key)
    /\ acache' = LRUAsyncDelete(acache, key)
    /\ UNCHANGED <<scache, sacache>>
    /\ recency' = SeqWithout(recency, _ensure_key_type(key))
    /\ lastOp' = [op |-> "delete", key |-> key, value |-> None, ret |-> None,
                  aret |-> None, prevSet |-> PrevSet(key),
                  present |-> _ensure_key_type(key) \in DictKeys(cache),
                  size |-> Len(cache)]
    /\ UNCHANGED <<capacity, repoVars>>

CacheNext ==
    \/ \E key \in RawKeys : CacheGet(key)
    \/ \E key \in RawKeys, value \in CacheValues : CacheSet(key, value)
    \/ \E key \in RawKeys : CacheDelete(key)

(***************************************************************************)
(* The same calls made on both simple caches.                              *)
(***************************************************************************)
lruVars == <<capacity, cache, acache, recency>>

SimpleCacheGet(key) ==
    /\ lastOp' = [op |-> "get", key |-> key, value |-> None,
                  ret |-> SimpleGetReturn(scache, key),
                  aret |-> SimpleAsyncGetReturn(sacache, key), prevSet |-> PrevSet(key),
                  present |-> _ensure_key_type(key) \in DictKeys(scache),
                  size |-> Len(scache)]
    /\ UNCHANGED <<scache, sacache, lruVars, repoVars>>

SimpleCacheSet(key, value) ==
    /\ scache' = SimpleSet(scache, key, value)
    /\ sacache' = SimpleAsyncSet(sacache, key, value)
    /\ lastOp' = [op |-> "set", key |-> key, value |-> value, ret |-> None,
                  aret |-> None, prevSet |-> PrevSet(key),
                  present |-> _ensure_key_type(key) \in DictKeys(scache),
                  size |-> Len(scache)]
    /\ UNCHANGED <<lruVars, repoVars>>

SimpleCacheDelete(key) ==
    /\ scache' = SimpleDelete(scache, key)
    /\ sacache' = SimpleAsyncDelete(sacache, key)
    /\ lastOp' = [op |-> "delete", key |-> key, value |-> None, ret |-> None,
                  aret |-> None, prevSet |-> PrevSet(key),
                  present |-> _ensure_key_type(key) \in DictKeys(scache),
                  size |-> Len(scache)]
    /\ UNCHANGED <<lruVars, repoVars>>

SimpleNext ==
    \/ \E key \in RawKeys : SimpleCacheGet(key)
    \/ \E key \in RawKeys, value \in CacheValues : SimpleCacheSet(key, value)
    \/ \E key \in RawKeys : SimpleCacheDelete(key)

(***************************************************************************)
(* The pubsub channel (rgdps/api/pubsub.py).  router maps a topic to its   *)
(* handler; every process registers the same handlers and runs one         *)
(* subscriber loop, started at startup and closed at shutdown.             *)
(***************************************************************************)
BusProcs == {"w1", "w2"}

\* the topics that are published
Topics == {"rgdps:ping", "rgdps:levels:sync_meili"}

\* variant: the sync handler is not registered
RegisteredPingOnly == {"rgdps:ping"}

\* the topics of @router.register: each has one handler
Registered == {"rgdps:ping", "rgdps:levels:sync_meili"}

\* ping_handler only logs; the sync handlers await a use case, which can raise
CanRaise(topic) == topic # "rgdps:ping"

NoMsg == [id |-> 0, topic |-> ""]

BusStart ==
    [loop |-> [w \in BusProcs |-> "new"],
     inbox |-> [w \in BusProcs |-> <<>>],
     running |-> [w \in BusProcs |-> NoMsg],
     sent |-> <<>>,
     log |-> {}]

\* the value a coroutine has returned or raised
Pending == [kind |-> "pending", val |-> <<>>, call |-> ""]
ReturnNone == [kind |-> "None", val |-> <<>>, call |-> ""]
Returned(val) == [kind |-> "value", val |-> val, call |-> ""]
Raised(call) == [kind |-> "error", val |-> <<>>, call |-> call]

\* realistikgdps/repositories/account.py: no account, an empty account_repo
AcctIdle == [account_id |-> 0, pc |-> "idle", ret |-> Pending, cached |-> ReturnNone,
             loads |-> 0]

AcctStart == [db |-> <<>>, repo |-> <<>>, req |-> [p \in {"p1", "p2"} |-> AcctIdle]]

\* no object has been made
MemStart == [objs |-> <<>>, lists |-> <<>>, held |-> None, origin |-> ""]

\* no repository call is made in the behaviours of the cache specification
RepoUnused ==
    /\ repo = "none"
    /\ sequential = TRUE
    /\ found_rows = FALSE
    /\ levels = <<>>
    /\ meili = <<>>
    /\ req = <<>>
    /\ sync = <<>>
    /\ pre = <<>>
    /\ faulted = FALSE
    /\ ncalls = 0
    /\ marked = {}
    /\ rebuilt = 0
    /\ bus = BusStart
    /\ acct = AcctStart
    /\ mem = MemStart
    /\ user_relationships = <<>>
    /\ user_likes = <<>>
    /\ daily_chests = <<>>
    /\ user_comments = <<>>

CacheOnlyInit == CacheInit /\ RepoUnused

CacheSpec == CacheOnlyInit /\ [][CacheNext]_vars

(***************************************************************************)
(* The order in which successive evictions would remove the entries.       *)
(***************************************************************************)
RECURSIVE EvictionOrder(_)
EvictionOrder(d) ==
    IF Len(d) = 0 THEN <<>>
    ELSE <<CHOOSE k \in DictKeys(d) : k \notin DictKeys(EvictOne(d))>>
             \o EvictionOrder(EvictOne(d))

DictMap(d) == {<<d[i].k, d[i].v>> : i \in 1..Len(d)}

\* C1: when the cache holds exactly `capacity` distinct keys, a set of a key
\* it does not hold removes exactly one entry, the least recently accessed
\* one (oldest by insertion or last get hit), and leaves the other entries,
\* with their values, plus the new key; in both LRU caches.
C1_SetEvictsExactlyLRU ==
    [][(/\ lastOp'.op = "set"
        /\ Len(cache) = capacity
        /\ Len(acache) = capacity
        /\ _ensure_key_type(lastOp'.key) \notin DictKeys(cache))
       => LET k == _ensure_key_type(lastOp'.key)
              lru == Head(recency)
              expected == {e \in DictMap(cache) : e[1] # lru}
                              \cup {<<k, lastOp'.value>>}
          IN  /\ lru \in DictKeys(cache)
              /\ DictMap(cache') = expected
              /\ DictMap(acache') = expected
              /\ Cardinality(DictKeys(cache) \ DictKeys(cache')) = 1
              /\ Len(cache') = capacity
              /\ Len(acache') = capacity]_vars

\* a full cache of at least two entries whose oldest insertion was refreshed
\* by a get, after which a new key was set and evicted another entry
C1_Witness ==
    /\ lastOp.op = "set"
    /\ ~lastOp.present
    /\ lastOp.size = capacity
    /\ capacity >= 2
    /\ "1" \in DictKeys(cache)
    /\ "2" \notin DictKeys(cache)
    /\ "3" \in DictKeys(cache)
    /\ cache[1].k = "1"

ALL_FIELDS ==
    {"id", "name", "user_id", "length", "publicity", "upload_ts", "stars", "search_flags",
     "deleted"}

FLAG_FIELDS == {"epic", "magic", "awarded", "legendary", "mythical"}

\* LevelSearchFlag
EPIC == 1
AWARDED == 2
MAGIC == 4
LEGENDARY == 8
MYTHICAL == 16

\* LevelLength
TINY == 0
MEDIUM == 2

\* LevelPublicity
PUBLIC == 0

\* flags & bit, as a bool
HasFlag(flags, bit) == ((flags \div bit) % 2) = 1

\* a datetime and its unix timestamp
Datetime(t) == [dt |-> t]
into_unix_ts(d) == d.dt
from_unix_ts(t) == [dt |-> t]

Times == {1}

DictMerge(d, p) ==
    [f \in DOMAIN d \cup DOMAIN p |-> IF f \in DOMAIN p THEN p[f] ELSE d[f]]

DictWithout(d, fs) == [f \in DOMAIN d \ fs |-> d[f]]

\* variant: the magic and awarded attributes take each other's bit
_make_meili_dict_swapped(level_dict) ==
    LET ts == IF "upload_ts" \in DOMAIN level_dict
              THEN DictMerge(level_dict,
                             [upload_ts |-> into_unix_ts(level_dict["upload_ts"])])
              ELSE level_dict
    IN  IF "search_flags" \in DOMAIN ts
        THEN DictMerge(ts, [epic |-> HasFlag(ts["search_flags"], EPIC),
                            magic |-> HasFlag(ts["search_flags"], AWARDED),
                            awarded |-> HasFlag(ts["search_flags"], MAGIC),
                            legendary |-> HasFlag(ts["search_flags"], LEGENDARY),
                            mythical |-> HasFlag(ts["search_flags"], MYTHICAL)])
        ELSE ts

_make_meili_dict(level_dict) ==
    LET ts == IF "upload_ts" \in DOMAIN level_dict
              THEN DictMerge(level_dict,
                             [upload_ts |-> into_unix_ts(level_dict["upload_ts"])])
              ELSE level_dict
    IN  IF "search_flags" \in DOMAIN ts
        THEN DictMerge(ts, [epic |-> HasFlag(ts["search_flags"], EPIC),
                            magic |-> HasFlag(ts["search_flags"], MAGIC),
                            awarded |-> HasFlag(ts["search_flags"], AWARDED),
                            legendary |-> HasFlag(ts["search_flags"], LEGENDARY),
                            mythical |-> HasFlag(ts["search_flags"], MYTHICAL)])
        ELSE ts

\* the keys _from_meili_dict and Level(**...) read
MeiliReadable(doc) == (ALL_FIELDS \cup FLAG_FIELDS) \subseteq DOMAIN doc

_from_meili_dict(doc) ==
    LET search_flags == (IF doc["epic"] THEN EPIC ELSE 0)
                        + (IF doc["magic"] THEN MAGIC ELSE 0)
                        + (IF doc["awarded"] THEN AWARDED ELSE 0)
                        + (IF doc["legendary"] THEN LEGENDARY ELSE 0)
                        + (IF doc["mythical"] THEN MYTHICAL ELSE 0)
    IN  DictWithout(DictMerge(doc, [upload_ts |-> from_unix_ts(doc["upload_ts"]),
                                    search_flags |-> search_flags]),
                    FLAG_FIELDS)

(***************************************************************************)
(* The relational store keeps a bool column as 0 or 1; building a Level    *)
(* from a row turns it into a bool again.                                  *)
(***************************************************************************)
DbParams(fields) ==
    IF "deleted" \in DOMAIN fields
    THEN DictMerge(fields, [deleted |-> IF fields["deleted"] THEN 1 ELSE 0])
    ELSE fields

LevelOfRow(row) == DictMerge(row, [deleted |-> row["deleted"] # 0])

\* variant: the SELECT without its WHERE clause
LevelFromIdFirstRow(rows, level_id) ==
    IF Len(rows) >= 1 THEN Returned(LevelOfRow(rows[1])) ELSE ReturnNone

\* SELECT ... FROM levels WHERE id = :level_id
LevelFromId(rows, level_id) ==
    IF level_id \in 1..Len(rows) THEN Returned(LevelOfRow(rows[level_id])) ELSE ReturnNone

\* from_name_and_user_id: the statement is the SELECT with "AND deleted = 0"
\* when include_deleted is false and the empty string otherwise; fetch_one
\* returns one of the rows the statement selects
LevelFromNameAndUserId(rows, name, user_id, include_deleted) ==
    IF include_deleted THEN {Raised("fetch_one")}
    ELSE LET hits == {i \in 1..Len(rows) : /\ rows[i]["name"] = name
                                           /\ rows[i]["user_id"] = user_id
                                           /\ rows[i]["deleted"] = 0}
         IN  IF hits = {} THEN {ReturnNone}
             ELSE {Returned(LevelOfRow(rows[i])) : i \in hits}

\* from_name: the statement is the SELECT with "AND deleted = 0" when
\* include_deleted is false and " LIMIT 1" alone otherwise
LevelFromName(rows, name, include_deleted) ==
    IF include_deleted THEN {Raised("fetch_one")}
    ELSE LET hits == {i \in 1..Len(rows) : /\ rows[i]["name"] = name
                                           /\ rows[i]["deleted"] = 0}
         IN  IF hits = {} THEN {ReturnNone}
             ELSE {Returned(LevelOfRow(rows[i])) : i \in hits}

\* SELECT * FROM levels [WHERE deleted = 0]
LevelIterateAll(rows, include_deleted) ==
    LET ids == {i \in 1..Len(rows) : include_deleted \/ rows[i]["deleted"] = 0}
    IN  {LevelOfRow(rows[i]) : i \in ids}

(***************************************************************************)
(* The MeiliSearch index: add_documents replaces the document with the     *)
(* same id, update_documents merges the given fields into it (and adds the *)
(* document when the index has none with that id).                         *)
(***************************************************************************)
\* variant: add_documents that inserts a second document when the id is taken
MeiliAddDocumentInsert(index, doc) ==
    LET top == IF DOMAIN index = {} THEN 0
               ELSE CHOOSE m \in DOMAIN index : \A n \in DOMAIN index : n <= m
        at == IF doc["id"] \in DOMAIN index THEN top + 1 ELSE doc["id"]
    IN  [i \in DOMAIN index \cup {at} |-> IF i = at THEN doc ELSE index[i]]

MeiliAddDocument(index, doc) ==
    [i \in DOMAIN index \cup {doc["id"]} |-> IF i = doc["id"] THEN doc ELSE index[i]]

\* variant: update_documents that adds a missing document but merges nothing
MeiliUpdateDocumentAddOnly(index, doc) ==
    IF doc["id"] \in DOMAIN index THEN index ELSE MeiliAddDocument(index, doc)

MeiliUpdateDocument(index, doc) ==
    [i \in DOMAIN index \cup {doc["id"]} |->
        IF i # doc["id"] THEN index[i]
        ELSE IF i \in DOMAIN index THEN DictMerge(index[i], doc) ELSE doc]

RECURSIVE MeiliAddDocuments(_, _)
MeiliAddDocuments(index, docs) ==
    IF docs = {} THEN index
    ELSE LET d == CHOOSE x \in docs : TRUE
         IN  MeiliAddDocuments(MeiliAddDocument(index, d), docs \ {d})

\* a filter clause holds of a document that has the attribute; a bool
\* attribute is compared with the literals 0 and 1
BOOL_FIELDS == {"deleted"} \cup FLAG_FIELDS

FilterValue(doc, field) ==
    IF field \in BOOL_FIELDS THEN (IF doc[field] THEN 1 ELSE 0) ELSE doc[field]

ClauseHolds(doc, clause) ==
    /\ clause.field \in DOMAIN doc
    /\ CASE clause.op = "=" -> FilterValue(doc, clause.field) = clause.value
         [] clause.op = ">" -> FilterValue(doc, clause.field) > clause.value
         [] clause.op = "IN" -> FilterValue(doc, clause.field) \in clause.value

\* variant: the filter list without "deleted = 0"
SearchFiltersNoDeleted(required_lengths, rated_only) ==
    <<[field |-> "publicity", op |-> "=", value |-> PUBLIC]>>

\* search(): an optional argument is <<>> (None) or <<value>>
SearchFilters(required_lengths, rated_only) ==
    <<[field |-> "deleted", op |-> "=", value |-> 0],
      [field |-> "publicity", op |-> "=", value |-> PUBLIC]>>
    \o (IF required_lengths # <<>>
        THEN <<[field |-> "length", op |-> "IN", value |-> required_lengths[1]]>>
        ELSE <<>>)
    \o (IF rated_only # <<>>
        THEN (IF rated_only[1]
              THEN <<[field |-> "stars", op |-> ">", value |-> 0]>>
              ELSE <<[field |-> "stars", op |-> "=", value |-> 0]>>)
        ELSE <<>>)

SearchQueries ==
    [required_lengths : {<<>>, <<{MEDIUM}>>}, rated_only : {<<>>, <<TRUE>>, <<FALSE>>}]

LevelSearch(index, query) ==
    LET filters == SearchFilters(query.required_lengths, query.rated_only)
        hits == {index[i] : i \in {j \in DOMAIN index :
                                      \A k \in 1..Len(filters) :
                                          ClauseHolds(index[j], filters[k])}}
    IN  IF \A h \in hits : MeiliReadable(h)
        THEN [raised |-> FALSE, results |-> {_from_meili_dict(h) : h \in hits}]
        ELSE [raised |-> TRUE, results |-> {}]

(***************************************************************************)
(* Callers.  A caller is idle or suspended inside create or update_partial *)
(* at one of its awaits; it resumes when the awaited store call returns or *)
(* raises.                                                                 *)
(***************************************************************************)
Procs == {"p1", "p2"}

Names == {"Cube Rush"}

UpdateDeltas ==
    {[stars |-> 5], [stars |-> 0], [deleted |-> TRUE], [deleted |-> FALSE],
     [search_flags |-> EPIC + LEGENDARY, upload_ts |-> Datetime(2)]}

Idle == [op |-> "idle", step |-> 0, level_id |-> 0, obj |-> <<>>, ret |-> Pending,
         writes |-> 0, mcalls |-> 0]

NoSync == [pc |-> "idle", buf |-> {}, stale |-> FALSE, overlap |-> FALSE]

\* history: an update_partial is between its call and its return
UpdateInFlight ==
    \E p \in DOMAIN req : req[p].op = "update_partial" /\ req[p].ret = Pending

\* history (sync.stale, kept from pass to pass): a document about to be
\* pushed is no longer the translation of its row
Stale(buf, rows) ==
    \E doc \in buf : doc # _make_meili_dict(LevelOfRow(rows[doc["id"]]))

\* the awaits of create and of update_partial, in program order
create_calls_index_first == <<"add_documents", "execute">>

create_calls == <<"execute", "add_documents">>

update_partial_calls_no_mirror == <<"execute", "from_id">>

update_partial_calls == <<"execute", "update_documents", "from_id">>

Calls(op) == IF op = "create" THEN create_calls ELSE update_partial_calls

AtCall(r, call) ==
    /\ r.op \in {"create", "update_partial"}
    /\ r.ret = Pending
    /\ Calls(r.op)[r.step] = call

\* the awaited call returned: go on to the next await, or return retval
Advance(r, retval) ==
    IF r.step = Len(Calls(r.op))
    THEN [r EXCEPT !.ret = retval]
    ELSE [r EXCEPT !.step = r.step + 1]

Running(r) == r.op # "idle"

CanBegin(p) ==
    /\ repo = "levels"
    /\ ~Running(req[p])
    /\ ncalls < MaxCalls
    /\ sequential => /\ \A q \in Procs : ~Running(req[q])
                     /\ sync.pc = "idle"

Snapshot ==
    [levels |-> levels, meili |-> meili, user_relationships |-> user_relationships]

CreateBegin(p, name, length, deleted, now) ==
    /\ CanBegin(p)
    /\ ncalls' = ncalls + 1
    /\ Len(levels) + Cardinality({q \in Procs : req[q].op = "create"
                                                 /\ req[q].writes = 0}) < MaxRows
    /\ LET level == [id |-> 0, name |-> name, user_id |-> 1, length |-> length,
                     publicity |-> PUBLIC, upload_ts |-> Datetime(now),
                     stars |-> 0, search_flags |-> 0, deleted |-> deleted]
       IN  req' = [req EXCEPT ![p] = [Idle EXCEPT !.op = "create", !.step = 1,
                                                  !.obj = level]]
    /\ pre' = IF sequential THEN Snapshot ELSE pre
    /\ UNCHANGED <<repo, sequential, found_rows, levels, meili, sync, faulted, idleVars>>

\* level.id = await self._mysql.execute("INSERT INTO levels ...", level_dump)
CreateExecute(p) ==
    /\ AtCall(req[p], "execute")
    /\ req[p].op = "create"
    /\ \/ LET new_id == Len(levels) + 1
              level == DictMerge(req[p].obj, [id |-> new_id])
          IN  /\ levels' = Append(levels, DbParams(level))
              /\ req' = [req EXCEPT ![p] =
                            Advance([req[p] EXCEPT !.obj = level, !.level_id = new_id,
                                                   !.writes = @ + 1],
                                    Returned(level))]
              /\ rebuilt' = 0
              /\ UNCHANGED faulted
       \/ /\ req' = [req EXCEPT ![p].ret = Raised("execute")]
          /\ faulted' = TRUE
          /\ UNCHANGED <<levels, rebuilt>>
    /\ UNCHANGED <<repo, sequential, found_rows, meili, sync, pre, ncalls, restVars, marked>>

\* variant: a failed add_documents is answered by deleting the inserted row
CreateAddDocumentsRollback(p) ==
    /\ AtCall(req[p], "add_documents")
    /\ \/ /\ meili' = MeiliAddDocument(meili, _make_meili_dict(req[p].obj))
          /\ req' = [req EXCEPT ![p] =
                        Advance([req[p] EXCEPT !.mcalls = @ + 1], Returned(req[p].obj))]
          /\ rebuilt' = 0
          /\ UNCHANGED <<faulted, levels>>
       \/ /\ req' = [req EXCEPT ![p].ret = Raised("add_documents"), ![p].mcalls = @ + 1,
                                ![p].writes = @ + 1]
          /\ levels' = SubSeq(levels, 1, Len(levels) - 1)
          /\ faulted' = TRUE
          /\ rebuilt' = 0
          /\ UNCHANGED meili
    /\ UNCHANGED <<repo, sequential, found_rows, sync, pre, ncalls, restVars, marked>>

\* await self._meili.add_documents([_make_meili_dict(level.model_dump())])
CreateAddDocuments(p) ==
    /\ AtCall(req[p], "add_documents")
    /\ \/ /\ meili' = MeiliAddDocument(meili, _make_meili_dict(req[p].obj))
          /\ req' = [req EXCEPT ![p] =
                        Advance([req[p] EXCEPT !.mcalls = @ + 1], Returned(req[p].obj))]
          /\ rebuilt' = 0
          /\ UNCHANGED faulted
       \/ /\ req' = [req EXCEPT ![p].ret = Raised("add_documents"), ![p].mcalls = @ + 1]
          /\ faulted' = TRUE
          /\ UNCHANGED <<meili, rebuilt>>
    /\ UNCHANGED <<repo, sequential, found_rows, levels, sync, pre, ncalls, restVars, marked>>

UpdateBegin(p, level_id, changed_fields) ==
    /\ CanBegin(p)
    /\ ncalls' = ncalls + 1
    /\ req' = [req EXCEPT ![p] = [Idle EXCEPT !.op = "update_partial", !.step = 1,
                                              !.level_id = level_id,
                                              !.obj = changed_fields]]
    /\ pre' = IF sequential THEN Snapshot ELSE pre
    /\ UNCHANGED <<repo, sequential, found_rows, levels, meili, sync, faulted, idleVars>>

\* history: an UPDATE that clears the flag of a row unmarks it; an update_partial
\* that set the flag and returned the record marks it
MarkedAfterWrite(exists, id, changed_fields) ==
    IF exists /\ "deleted" \in DOMAIN changed_fields /\ ~changed_fields["deleted"]
    THEN marked \ {id}
    ELSE marked

MarkedAfterReturn(ret, id, changed_fields) ==
    IF ret.kind = "value" /\ "deleted" \in DOMAIN changed_fields /\ changed_fields["deleted"]
    THEN marked \cup {id}
    ELSE marked

\* the row after UPDATE levels SET <the supplied fields> WHERE id = :id
UpdatedRow(row, changed_fields) == DictMerge(row, DbParams(changed_fields))

\* what execute returns for the UPDATE: the rows matched or the rows changed
ChangedRows(rows, level_id, changed_fields) ==
    IF level_id \notin 1..Len(rows) THEN 0
    ELSE IF found_rows THEN 1
    ELSE IF UpdatedRow(rows[level_id], changed_fields) # rows[level_id] THEN 1
    ELSE 0

\* changed_rows = await self._mysql.execute(update_from_partial_dict(...), ...)
\* if not changed_rows: return None
UpdateExecute(p) ==
    /\ AtCall(req[p], "execute")
    /\ req[p].op = "update_partial"
    /\ \/ LET id == req[p].level_id
              changed_rows == ChangedRows(levels, id, req[p].obj)
              r == [req[p] EXCEPT !.writes = @ + 1]
          IN  /\ levels' = IF id \in 1..Len(levels)
                           THEN [levels EXCEPT ![id] = UpdatedRow(@, req[p].obj)]
                           ELSE levels
              /\ req' = [req EXCEPT ![p] =
                            IF changed_rows = 0
                            THEN [r EXCEPT !.ret = ReturnNone]
                            ELSE Advance(r, ReturnNone)]
              /\ marked' = MarkedAfterWrite(id \in 1..Len(levels), id, req[p].obj)
              /\ rebuilt' = 0
              /\ UNCHANGED faulted
       \/ /\ req' = [req EXCEPT ![p].ret = Raised("execute")]
          /\ faulted' = TRUE
          /\ UNCHANGED <<levels, marked, rebuilt>>
    /\ UNCHANGED <<repo, sequential, found_rows, meili, sync, pre, ncalls, restVars>>

\* changed_fields["id"] = level_id
\* await self._meili.update_documents([_make_meili_dict(changed_fields)])
UpdateDocuments(p) ==
    /\ AtCall(req[p], "update_documents")
    /\ \/ LET changed_fields == DictMerge(req[p].obj, [id |-> req[p].level_id])
          IN  /\ meili' = MeiliUpdateDocument(meili, _make_meili_dict(changed_fields))
              /\ req' = [req EXCEPT ![p] =
                            Advance([req[p] EXCEPT !.mcalls = @ + 1], ReturnNone)]
              /\ rebuilt' = 0
              /\ UNCHANGED faulted
       \/ /\ req' = [req EXCEPT ![p].ret = Raised("update_documents"),
                                ![p].mcalls = @ + 1]
          /\ faulted' = TRUE
          /\ UNCHANGED <<meili, rebuilt>>
    /\ UNCHANGED <<repo, sequential, found_rows, levels, sync, pre, ncalls, restVars, marked>>

\* return await self.from_id(level_id)
UpdateFromId(p) ==
    /\ AtCall(req[p], "from_id")
    /\ \/ /\ req' = [req EXCEPT ![p] = Advance(req[p], LevelFromId(levels, req[p].level_id))]
          /\ marked' = MarkedAfterReturn(LevelFromId(levels, req[p].level_id),
                                         req[p].level_id, req[p].obj)
          /\ UNCHANGED faulted
       \/ /\ req' = [req EXCEPT ![p].ret = Raised("from_id")]
          /\ faulted' = TRUE
          /\ UNCHANGED marked
    /\ UNCHANGED <<repo, sequential, found_rows, levels, meili, sync, pre, ncalls, restVars, rebuilt>>

\* the caller takes the result (or the exception) and is free again
Return(p) ==
    /\ Running(req[p])
    /\ req[p].ret # Pending
    /\ req' = [req EXCEPT ![p] = Idle]
    /\ pre' = <<>>
    /\ UNCHANGED <<repo, sequential, found_rows, levels, meili, sync, faulted, ncalls, idleVars>>

(***************************************************************************)
(* levels.synchronise_search, run by level_sync_meili_handler: it reads    *)
(* every level iterate_all yields, translates each with _make_meili_dict   *)
(* and sends them to the index with add_documents.                         *)
(***************************************************************************)
SyncBegin ==
    /\ repo = "levels"
    /\ sync.pc = "idle"
    /\ ncalls < MaxCalls
    /\ ncalls' = ncalls + 1
    /\ sequential => \A q \in Procs : ~Running(req[q])
    /\ sync' = [NoSync EXCEPT !.pc = "scan", !.stale = sync.stale]
    /\ UNCHANGED <<repo, sequential, found_rows, levels, meili, req, pre, faulted, idleVars>>

SyncScan ==
    /\ sync.pc = "scan"
    /\ \/ /\ sync' = [pc |-> "push",
                      buf |-> {_make_meili_dict(l) : l \in LevelIterateAll(levels, FALSE)},
                      stale |-> sync.stale,
                      overlap |-> UpdateInFlight]
          /\ UNCHANGED faulted
       \/ /\ sync' = [NoSync EXCEPT !.stale = sync.stale]
          /\ faulted' = TRUE
    /\ UNCHANGED <<repo, sequential, found_rows, levels, meili, req, pre, ncalls, idleVars>>

SyncPush ==
    /\ sync.pc = "push"
    /\ \/ /\ meili' = MeiliAddDocuments(meili, sync.buf)
          /\ sync' = [pc |-> "done", buf |-> {},
                      stale |-> sync.stale \/ Stale(sync.buf, levels),
                      overlap |-> sync.overlap \/ UpdateInFlight]
          /\ rebuilt' = rebuilt + 1
          /\ UNCHANGED faulted
       \/ /\ sync' = [NoSync EXCEPT !.stale = sync.stale]
          /\ faulted' = TRUE
          /\ UNCHANGED <<meili, rebuilt>>
    /\ UNCHANGED <<repo, sequential, found_rows, levels, req, pre, ncalls, restVars, marked>>

SyncReturn ==
    /\ sync.pc = "done"
    /\ sync' = [NoSync EXCEPT !.stale = sync.stale]
    /\ UNCHANGED <<repo, sequential, found_rows, levels, meili, req, pre, faulted, ncalls, idleVars>>

(***************************************************************************)
(* rgdps/repositories/daily_chest.py, like.py and user_relationship.py:    *)
(* plain relational repositories.  create has one await (the INSERT);      *)
(* update_partial has two (the UPDATE and the from_id that re-reads).      *)
(***************************************************************************)
\* an enum member with the given value
Enum(v) == [value |-> v]

CanBeginOn(r, p) ==
    /\ repo = r
    /\ ~Running(req[p])
    /\ ncalls < MaxCalls

\* DailyChest.as_dict(include_id=False), plus the id the INSERT assigns
ChestRow(chest, id) ==
    [id |-> id, user_id |-> chest["user_id"], type |-> chest["type"].value,
     mana |-> chest["mana"], claimed_ts |-> chest["claimed_ts"]]

\* DailyChest.from_mapping
ChestFromMapping(mapping) ==
    [id |-> mapping["id"], user_id |-> mapping["user_id"], type |-> Enum(mapping["type"]),
     mana |-> mapping["mana"], claimed_ts |-> mapping["claimed_ts"]]

\* SELECT <all fields> FROM daily_chests WHERE id = :chest_id
ChestFromId(rows, chest_id) ==
    IF chest_id \in 1..Len(rows) THEN Returned(ChestFromMapping(rows[chest_id]))
    ELSE ReturnNone

ChestCreate(p, chest_type, mana, now) ==
    /\ CanBeginOn("daily_chests", p)
    /\ Len(daily_chests) < MaxRows
    /\ ncalls' = ncalls + 1
    /\ pre' = Snapshot
    /\ LET chest == [id |-> 0, user_id |-> 1, type |-> Enum(chest_type), mana |-> mana,
                     claimed_ts |-> Datetime(now)]
           new_id == Len(daily_chests) + 1
           r == [Idle EXCEPT !.op = "daily_chest.create", !.step = 1]
       IN  \/ /\ daily_chests' = Append(daily_chests, ChestRow(chest, new_id))
              /\ req' = [req EXCEPT ![p] =
                            [r EXCEPT !.ret = Returned(DictMerge(chest, [id |-> new_id])),
                                      !.level_id = new_id, !.writes = 1]]
              /\ UNCHANGED faulted
           \/ /\ req' = [req EXCEPT ![p] = [r EXCEPT !.ret = Raised("execute")]]
              /\ faulted' = TRUE
              /\ UNCHANGED daily_chests
    /\ UNCHANGED <<repo, sequential, found_rows, levels, meili, sync, user_relationships,
                   user_likes, marked, rebuilt, cacheVars, bus, acct, mem, user_comments>>

LIKE_FIELDS == {"id", "target_type", "target_id", "user_id", "value"}

\* Like.as_dict(include_id=True): a zero id is sent as NULL and the INSERT assigns one
LikeRow(like, id) ==
    [id |-> IF like["id"] = 0 THEN id ELSE like["id"],
     target_type |-> like["target_type"].value, target_id |-> like["target_id"],
     user_id |-> like["user_id"], value |-> like["value"]]

\* Like.from_mapping reads every field of Like from the mapping by its name
LikeFromMapping(mapping) ==
    IF LIKE_FIELDS \subseteq DOMAIN mapping
    THEN Returned([id |-> mapping["id"], target_type |-> Enum(mapping["target_type"]),
                   target_id |-> mapping["target_id"], user_id |-> mapping["user_id"],
                   value |-> mapping["value"]])
    ELSE Raised("from_mapping")

\* SELECT <the fields but id> FROM user_likes WHERE id = :id
LikeFromId(rows, id) ==
    IF id \in 1..Len(rows) THEN LikeFromMapping(DictWithout(rows[id], {"id"}))
    ELSE ReturnNone

LikeCreate(p, value) ==
    /\ CanBeginOn("user_likes", p)
    /\ Len(user_likes) < MaxRows
    /\ ncalls' = ncalls + 1
    /\ pre' = Snapshot
    /\ LET like == [id |-> 0, target_type |-> Enum(1), target_id |-> 1, user_id |-> 1,
                    value |-> value]
           new_id == Len(user_likes) + 1
           r == [Idle EXCEPT !.op = "like.create", !.step = 1]
       IN  \/ /\ user_likes' = Append(user_likes, LikeRow(like, new_id))
              /\ req' = [req EXCEPT ![p] =
                            [r EXCEPT !.ret = Returned(DictMerge(like, [id |-> new_id])),
                                      !.level_id = new_id, !.writes = 1]]
              /\ UNCHANGED faulted
           \/ /\ req' = [req EXCEPT ![p] = [r EXCEPT !.ret = Raised("execute")]]
              /\ faulted' = TRUE
              /\ UNCHANGED user_likes
    /\ UNCHANGED <<repo, sequential, found_rows, levels, meili, sync, user_relationships,
                   daily_chests, marked, rebuilt, cacheVars, bus, acct, mem, user_comments>>

\* datetime.now() as evaluated when user_relationship.py is imported
IMPORT_TIME == 0

RelDeltas ==
    {[deleted |-> TRUE], [deleted |-> FALSE], [seen_ts |-> Datetime(1)],
     [seen_ts |-> Datetime(2), deleted |-> TRUE]}

\* UserRelationship.from_mapping
RelFromMapping(mapping) == DictMerge(mapping, [deleted |-> mapping["deleted"] # 0])

\* SELECT <all fields> FROM user_relationships WHERE id = :id [AND deleted = 0]
RelFromId(rows, relationship_id, include_deleted) ==
    IF /\ relationship_id \in 1..Len(rows)
       /\ include_deleted \/ rows[relationship_id]["deleted"] = 0
    THEN Returned(RelFromMapping(rows[relationship_id]))
    ELSE ReturnNone

RelCreate(p, user_id) ==
    /\ CanBeginOn("user_relationships", p)
    /\ Len(user_relationships) < MaxRows
    /\ ncalls' = ncalls + 1
    /\ pre' = Snapshot
    /\ LET relationship == [id |-> 0, user_id |-> user_id,
                            post_ts |-> Datetime(IMPORT_TIME), seen_ts |-> <<>>,
                            deleted |-> FALSE]
           new_id == Len(user_relationships) + 1
           created == DictMerge(relationship, [id |-> new_id])
           r == [Idle EXCEPT !.op = "user_relationship.create", !.step = 1]
       IN  \/ /\ user_relationships' = Append(user_relationships, DbParams(created))
              /\ req' = [req EXCEPT ![p] = [r EXCEPT !.ret = Returned(created),
                                                     !.level_id = new_id, !.writes = 1]]
              /\ UNCHANGED faulted
           \/ /\ req' = [req EXCEPT ![p] = [r EXCEPT !.ret = Raised("execute")]]
              /\ faulted' = TRUE
              /\ UNCHANGED user_relationships
    /\ UNCHANGED <<repo, sequential, found_rows, levels, meili, sync, user_likes,
                   daily_chests, marked, rebuilt, cacheVars, bus, acct, mem, user_comments>>

\* await ctx.mysql.execute(update_from_partial_dict("user_relationships", ...), ...)
RelUpdateExecute(p, relationship_id, changed_fields) ==
    /\ CanBeginOn("user_relationships", p)
    /\ ncalls' = ncalls + 1
    /\ pre' = Snapshot
    /\ LET r == [Idle EXCEPT !.op = "user_relationship.update_partial", !.step = 1,
                             !.level_id = relationship_id, !.obj = changed_fields]
       IN  \/ /\ user_relationships' =
                    IF relationship_id \in 1..Len(user_relationships)
                    THEN [user_relationships EXCEPT
                             ![relationship_id] = UpdatedRow(@, changed_fields)]
                    ELSE user_relationships
              /\ req' = [req EXCEPT ![p] = [r EXCEPT !.step = 2, !.writes = 1]]
              /\ marked' = MarkedAfterWrite(relationship_id \in 1..Len(user_relationships),
                                            relationship_id, changed_fields)
              /\ UNCHANGED faulted
           \/ /\ req' = [req EXCEPT ![p] = [r EXCEPT !.ret = Raised("execute")]]
              /\ faulted' = TRUE
              /\ UNCHANGED <<user_relationships, marked>>
    /\ UNCHANGED <<repo, sequential, found_rows, levels, meili, sync, user_likes,
                   daily_chests, rebuilt, cacheVars, bus, acct, mem, user_comments>>

\* return await from_id(ctx, relationship_id, include_deleted=True)
RelUpdateFromId(p) ==
    /\ req[p].op = "user_relationship.update_partial"
    /\ req[p].ret = Pending
    /\ \/ /\ req' = [req EXCEPT ![p].ret =
                        RelFromId(user_relationships, req[p].level_id, TRUE)]
          /\ marked' = MarkedAfterReturn(RelFromId(user_relationships, req[p].level_id, TRUE),
                                         req[p].level_id, req[p].obj)
          /\ UNCHANGED faulted
       \/ /\ req' = [req EXCEPT ![p].ret = Raised("from_id")]
          /\ faulted' = TRUE
          /\ UNCHANGED marked
    /\ UNCHANGED <<repo, sequential, found_rows, levels, meili, sync, pre, ncalls, restVars, rebuilt>>

\* like.update_value: UPDATE likes SET value = :value WHERE id = :id.  The
\* statement names the table likes; create, from_id and sum_by_target use
\* user_likes, which it leaves alone whether it succeeds or raises
LikeUpdateValue(p, like_id, value) ==
    /\ CanBeginOn("user_likes", p)
    /\ ncalls' = ncalls + 1
    /\ pre' = Snapshot
    /\ LET r == [Idle EXCEPT !.op = "like.update_value", !.step = 1,
                             !.level_id = like_id, !.obj = [value |-> value]]
       IN  \/ /\ req' = [req EXCEPT ![p] = [r EXCEPT !.ret = ReturnNone]]
              /\ UNCHANGED faulted
           \/ /\ req' = [req EXCEPT ![p] = [r EXCEPT !.ret = Raised("execute")]]
              /\ faulted' = TRUE
    /\ UNCHANGED <<repo, sequential, found_rows, levels, meili, sync, user_relationships,
                   user_likes, daily_chests, marked, rebuilt, cacheVars, bus, acct, mem, user_comments>>

RECURSIVE SumOfValues(_)
SumOfValues(rows) ==
    IF rows = <<>> THEN 0 ELSE Head(rows)["value"] + SumOfValues(Tail(rows))

\* like.sum_by_target: SELECT SUM(value) ... WHERE target_type AND target_id;
\* SUM over no row is NULL and the function returns 0
sum_by_target(rows, target_type, target_id) ==
    LET like_db == SelectSeq(rows, LAMBDA row :
                       row["target_type"] = target_type.value
                           /\ row["target_id"] = target_id)
    IN  IF like_db = <<>> THEN 0 ELSE SumOfValues(like_db)

PlainCall(p) ==
    \/ \E chest_type \in {0, 1}, mana \in {0, 5}, now \in Times :
          ChestCreate(p, chest_type, mana, now)
    \/ \E value \in {1, -1} : LikeCreate(p, value)
    \/ \E like_id \in 1..MaxRows, value \in {1, -1} : LikeUpdateValue(p, like_id, value)
    \/ \E user_id \in {1, 2} : RelCreate(p, user_id)
    \/ \E relationship_id \in 1..MaxRows, changed_fields \in RelDeltas :
          RelUpdateExecute(p, relationship_id, changed_fields)
    \/ RelUpdateFromId(p)

(***************************************************************************)
(* Specifications of the repositories.                                     *)
(***************************************************************************)
CacheUnused ==
    /\ capacity = 1
    /\ cache = <<>>
    /\ acache = <<>>
    /\ scache = <<>>
    /\ sacache = <<>>
    /\ recency = <<>>
    /\ lastOp = [op |-> "init", key |-> IntKey(1), value |-> None, ret |-> None,
                 aret |-> None, prevSet |-> NoPrevSet,
                 present |-> FALSE, size |-> 0]

StoresInit ==
    /\ found_rows \in BOOLEAN
    /\ levels = <<>>
    /\ meili = <<>>
    /\ req = [p \in Procs |-> Idle]
    /\ sync = NoSync
    /\ pre = <<>>
    /\ faulted = FALSE
    /\ ncalls = 0
    /\ marked = {}
    /\ rebuilt = 0
    /\ bus = BusStart
    /\ acct = AcctStart
    /\ mem = MemStart
    /\ user_relationships = <<>>
    /\ user_likes = <<>>
    /\ daily_chests = <<>>
    /\ user_comments = <<>>

LevelCall(p, lengths, deleteds) ==
    \/ \E name \in Names, length \in lengths, deleted \in deleteds, now \in Times :
          CreateBegin(p, name, length, deleted, now)
    \/ CreateExecute(p)
    \/ CreateAddDocuments(p)
    \/ \E level_id \in 1..MaxRows, changed_fields \in UpdateDeltas :
          UpdateBegin(p, level_id, changed_fields)
    \/ UpdateExecute(p)
    \/ UpdateDocuments(p)
    \/ UpdateFromId(p)
    \/ Return(p)

SyncCall ==
    \/ SyncBegin
    \/ SyncScan
    \/ SyncPush
    \/ SyncReturn

\* one caller, one call at a time
RepoInit ==
    /\ CacheUnused
    /\ StoresInit
    /\ repo \in {"levels", "user_relationships", "user_likes", "daily_chests"}
    /\ sequential = TRUE

RepoNext ==
    \/ LevelCall("p1", {TINY, MEDIUM}, BOOLEAN)
    \/ SyncCall
    \/ PlainCall("p1")

RepoSpec == RepoInit /\ [][RepoNext]_vars

\* two callers whose calls may overlap, or may not
ConcInit ==
    /\ CacheUnused
    /\ StoresInit
    /\ repo = "levels"
    /\ sequential \in BOOLEAN

ConcNext == \E p \in Procs : LevelCall(p, {MEDIUM}, {FALSE})

ConcSpec == ConcInit /\ [][ConcNext]_vars

(***************************************************************************)
(* Claims about the repositories.  A call has returned when req[p].ret is  *)
(* no longer Pending; in RepoSpec no other call runs before the caller     *)
(* takes the result, so the stores are then as the call left them and pre  *)
(* holds them as they were when it began.                                  *)
(***************************************************************************)
LevelOps == {"create", "update_partial"}

\* C3: after create returns record R with no later write, from_id(R.id)
\* returns a record equal to R in every field, the assigned id and the
\* defaults included (levels, daily chests and likes)
C3_CreateFromIdRoundTrip ==
    \A p \in Procs :
        req[p].ret.kind = "value" =>
            /\ req[p].op = "create" =>
                   LevelFromId(levels, req[p].ret.val["id"]) = req[p].ret
            /\ req[p].op = "daily_chest.create" =>
                   ChestFromId(daily_chests, req[p].ret.val["id"]) = req[p].ret
            /\ req[p].op = "like.create" =>
                   LikeFromId(user_likes, req[p].ret.val["id"]) = req[p].ret

UpdateOps == {"update_partial", "user_relationship.update_partial"}

\* from_id as a caller that asks for deleted records too sees it
FromIdOf(op, snapshot, id) ==
    IF op = "update_partial"
    THEN LevelFromId(snapshot.levels, id)
    ELSE RelFromId(snapshot.user_relationships, id, TRUE)

\* C4: after update_partial(id, D) has returned the record, with no other
\* writer, from_id(id) has every field named in D equal to D's value and
\* every other field, id included, equal to its value before the call
C4_UpdateWritesOnlySuppliedFields ==
    \A p \in Procs :
        (req[p].op \in UpdateOps /\ req[p].ret.kind = "value") =>
            LET D == req[p].obj
                before == FromIdOf(req[p].op, pre, req[p].level_id)
                after == FromIdOf(req[p].op, Snapshot, req[p].level_id)
            IN  /\ before.kind = "value"
                /\ after = req[p].ret
                /\ DOMAIN after.val = DOMAIN before.val
                /\ \A f \in DOMAIN after.val :
                       after.val[f] = IF f \in DOMAIN D THEN D[f] ELSE before.val[f]
                /\ after.val["id"] = req[p].level_id

\* a level whose stars an earlier call had raised gets two other fields set
C4_Witness ==
    /\ req["p1"].op = "update_partial"
    /\ req["p1"].ret.kind = "value"
    /\ DOMAIN req["p1"].obj = {"search_flags", "upload_ts"}
    /\ req["p1"].ret.val["stars"] = 5
    /\ req["p1"].ret.val["search_flags"] = EPIC + LEGENDARY
    /\ pre.levels[req["p1"].level_id]["search_flags"] = 0

\* C5: in create and update_partial the index write is issued only after
\* the relational write of the same call has succeeded; when the INSERT or
\* UPDATE fails the call raises that failure and has made no index call
C5_IndexWriteOnlyAfterRelationalWrite ==
    \A p \in Procs :
        req[p].op \in LevelOps =>
            /\ req[p].mcalls > 0 => req[p].writes = 1
            /\ AtCall(req[p], "add_documents") => req[p].writes = 1
            /\ AtCall(req[p], "update_documents") => req[p].writes = 1
            /\ req[p].writes = 0 /\ req[p].ret # Pending =>
                   req[p].ret = Raised("execute") /\ req[p].mcalls = 0

\* an update_partial whose UPDATE failed on an indexed level
C5_Witness ==
    /\ req["p1"].op = "update_partial"
    /\ req["p1"].ret = Raised("execute")
    /\ req["p1"].mcalls = 0
    /\ req["p1"].level_id \in DOMAIN meili
    /\ meili = pre.meili

\* C6: when the index write fails after the relational write succeeded,
\* the row keeps the written values, no further relational write is made
\* and the index write is not made again in that call
C6_IndexFailureKeepsRow ==
    \A p \in Procs :
        (req[p].op \in LevelOps /\ req[p].ret.kind = "error"
         /\ req[p].ret.call \in {"add_documents", "update_documents"}) =>
            LET row == LevelFromId(levels, req[p].level_id)
            IN  /\ req[p].writes = 1
                /\ req[p].mcalls = 1
                /\ row.kind = "value"
                /\ req[p].op = "create" => row.val = req[p].obj
                /\ req[p].op = "update_partial" =>
                       \A f \in DOMAIN req[p].obj : row.val[f] = req[p].obj[f]
                /\ meili = pre.meili

\* an update_partial that changed the stars of a row and failed at the index
C6_Witness ==
    /\ req["p1"].op = "update_partial"
    /\ req["p1"].ret = Raised("update_documents")
    /\ req["p1"].obj = [stars |-> 5]
    /\ levels[req["p1"].level_id]["stars"] = 5
    /\ pre.levels[req["p1"].level_id]["stars"] = 0
    /\ meili[req["p1"].level_id]["stars"] = 0

\* what from_id and search return
Visible(snapshot) ==
    [from_id |-> [i \in 1..(MaxRows + 1) |-> LevelFromId(snapshot.levels, i)],
     search |-> [q \in SearchQueries |-> LevelSearch(snapshot.meili, q)]]

\* C7 as stated: whenever create or update_partial ends in a store failure,
\* from_id and search return exactly what they returned before the call
C7_NoEffectAfterAnyFailure ==
    \A p \in Procs :
        (req[p].op \in LevelOps /\ req[p].ret.kind = "error") =>
            Visible(Snapshot) = Visible(pre)

\* C7: when create or update_partial ends in a failure of its relational
\* INSERT or UPDATE, from_id and search return exactly what they returned
\* before the call
C7_NoEffectAfterRelationalFailure ==
    \A p \in Procs :
        (req[p].op \in LevelOps /\ req[p].ret = Raised("execute")) =>
            /\ Visible(Snapshot) = Visible(pre)
            /\ Snapshot = pre

\* a create whose INSERT failed while a level is stored and searchable
C7_Witness ==
    /\ req["p1"].op = "create"
    /\ req["p1"].ret = Raised("execute")
    /\ Len(levels) = 1
    /\ \E q \in SearchQueries : LevelSearch(meili, q).results # {}

\* C8: once a rebuild of the index has completed, with no concurrent write,
\* every non-deleted row's document is the translation of the row and
\* default search returns no level that is deleted in the relational store
C8_RebuildRestoresAgreement ==
    sync.pc = "done" =>
        /\ \A i \in 1..Len(levels) :
               levels[i]["deleted"] = 0 =>
                   /\ i \in DOMAIN meili
                   /\ meili[i] = _make_meili_dict(LevelOfRow(levels[i]))
        /\ \A q \in SearchQueries :
               \A l \in LevelSearch(meili, q).results :
                   l["id"] \in 1..Len(levels) => levels[l["id"]]["deleted"] = 0

Returning(r) == Running(r) /\ r.ret # Pending

\* C9: when the calls run one after the other and no store call fails,
\* then after a call has returned every document of the index is the
\* translation of its row (two overlapping update_partial calls on one id
\* can leave a document whose field differs from the row's: the witness)
C9_SequentialCallsKeepIndexInStep ==
    (sequential /\ ~faulted /\ \A p \in Procs : ~Running(req[p]) \/ Returning(req[p])) =>
        \A i \in DOMAIN meili :
            /\ i \in 1..Len(levels)
            /\ meili[i] = _make_meili_dict(LevelOfRow(levels[i]))

\* two overlapping update_partial calls on one id set stars to different
\* values, both have returned the record, and the document's stars is not
\* the row's
C9_Witness ==
    /\ ~sequential
    /\ ~faulted
    /\ \A p \in Procs : req[p].op = "update_partial" /\ req[p].ret.kind = "value"
    /\ req["p1"].level_id = req["p2"].level_id
    /\ DOMAIN req["p1"].obj = {"stars"}
    /\ DOMAIN req["p2"].obj = {"stars"}
    /\ req["p1"].obj # req["p2"].obj
    /\ meili[req["p1"].level_id]["stars"] # levels[req["p1"].level_id]["stars"]

\* C10: a record that update_partial has marked deleted is in no result of
\* default search or default iterate_all, and from_id asked for deleted
\* records too returns it with deleted = true
C10_MarkedDeletedIsHiddenButRetrievable ==
    \A id \in marked :
        /\ repo = "levels" =>
               /\ \A q \in SearchQueries :
                      \A l \in LevelSearch(meili, q).results : l["id"] # id
               /\ \A l \in LevelIterateAll(levels, FALSE) : l["id"] # id
               /\ LevelFromId(levels, id).kind = "value"
               /\ LevelFromId(levels, id).val["deleted"] = TRUE
        /\ repo = "user_relationships" =>
               /\ RelFromId(user_relationships, id, TRUE).kind = "value"
               /\ RelFromId(user_relationships, id, TRUE).val["deleted"] = TRUE

\* a marked level with a complete document, while another level is found
C10_Witness ==
    /\ repo = "levels"
    /\ \E id \in marked :
          /\ id \in DOMAIN meili
          /\ MeiliReadable(meili[id])
          /\ \E q \in SearchQueries : LevelSearch(meili, q).results # {}
          /\ LevelIterateAll(levels, TRUE) # LevelIterateAll(levels, FALSE)

\* no call is running
Quiescent == (\A p \in Procs : ~Running(req[p])) /\ sync.pc = "idle"

C12_DefaultReadsHideDeleted ==
    /\ \A i \in 1..Len(levels) :
           levels[i]["deleted"] = 1 =>
               /\ LevelFromId(levels, i) = ReturnNone
               /\ \A name \in Names :
                      /\ \A r \in LevelFromName(levels, name, FALSE) :
                             r.kind = "value" => r.val["id"] # i
                      /\ \A r \in LevelFromNameAndUserId(levels, name, 1, FALSE) :
                             r.kind = "value" => r.val["id"] # i
    /\ \A i \in 1..Len(user_relationships) :
           user_relationships[i]["deleted"] = 1 =>
               RelFromId(user_relationships, i, FALSE) = ReturnNone

\* C13: a rebuild that follows a completed rebuild with no write in between
\* leaves the index as it was: every search query returns the same results
C13_RebuildIsIdempotent ==
    [][(rebuilt >= 1 /\ sync.pc = "push" /\ sync'.pc = "done")
       => /\ meili' = meili
          /\ \A q \in SearchQueries : LevelSearch(meili', q) = LevelSearch(meili, q)]_vars

\* the second of two rebuilds in succession has completed, over an index
\* that holds a document and a store that holds a level
C13_Witness ==
    /\ rebuilt = 2
    /\ sync.pc = "done"
    /\ Len(levels) >= 1
    /\ \E i \in DOMAIN meili : MeiliReadable(meili[i])
    /\ \A p \in Procs : ~Running(req[p])

(***************************************************************************)
(* The subscriber loop of each process and the publisher.  A published     *)
(* message goes to the loops that are connected at that moment and         *)
(* subscribe to its topic; a loop takes one message at a time, runs the    *)
(* topic's handler and, when the handler raises, logs it and goes on.      *)
(***************************************************************************)
busRest ==
    <<cacheVars, repo, sequential, found_rows, levels, meili, req, sync, pre, faulted,
      ncalls, marked, rebuilt, tables, acct, mem>>

Connected(w) == bus.loop[w] \in {"listening", "handling"}

\* on_startup: redis.initialize() starts the subscriber loop
Startup(w) ==
    /\ repo = "bus"
    /\ bus.loop[w] = "new"
    /\ bus' = [bus EXCEPT !.loop[w] = "listening"]
    /\ UNCHANGED busRest

\* on_shutdown: redis.close(); what the loop had not handled is gone
Shutdown(w) ==
    /\ repo = "bus"
    /\ Connected(w)
    /\ bus' = [bus EXCEPT !.loop[w] = "down", !.inbox[w] = <<>>, !.running[w] = NoMsg]
    /\ UNCHANGED busRest

Publish(topic) ==
    /\ repo = "bus"
    /\ Len(bus.sent) < MaxMsgs
    /\ LET msg == [id |-> Len(bus.sent) + 1, topic |-> topic]
           to == {w \in BusProcs : Connected(w)}
       IN  bus' = [bus EXCEPT
                      !.inbox = [w \in BusProcs |->
                                    IF w \in to /\ topic \in Registered
                                    THEN Append(bus.inbox[w], msg)
                                    ELSE bus.inbox[w]],
                      !.sent = Append(bus.sent, [topic |-> topic, to |-> to])]
    /\ UNCHANGED busRest

\* the loop takes the next message and calls the handler of its topic
Dispatch(w) ==
    /\ bus.loop[w] = "listening"
    /\ bus.inbox[w] # <<>>
    /\ bus' = [bus EXCEPT !.loop[w] = "handling",
                          !.running[w] = Head(bus.inbox[w]),
                          !.inbox[w] = Tail(bus.inbox[w])]
    /\ UNCHANGED busRest

HandlerReturn(w) ==
    /\ bus.loop[w] = "handling"
    /\ bus' = [bus EXCEPT !.loop[w] = "listening", !.running[w] = NoMsg,
                          !.log = @ \cup {[w |-> w, id |-> bus.running[w].id,
                                           outcome |-> "returned"]}]
    /\ UNCHANGED busRest

\* variant: the exception of the handler ends the loop
HandlerRaiseUncaught(w) ==
    /\ bus.loop[w] = "handling"
    /\ CanRaise(bus.running[w].topic)
    /\ bus' = [bus EXCEPT !.loop[w] = "down", !.running[w] = NoMsg, !.inbox[w] = <<>>,
                          !.log = @ \cup {[w |-> w, id |-> bus.running[w].id,
                                           outcome |-> "raised"]}]
    /\ UNCHANGED busRest

\* the handler raises: the loop catches and logs the exception
HandlerRaise(w) ==
    /\ bus.loop[w] = "handling"
    /\ CanRaise(bus.running[w].topic)
    /\ bus' = [bus EXCEPT !.loop[w] = "listening", !.running[w] = NoMsg,
                          !.log = @ \cup {[w |-> w, id |-> bus.running[w].id,
                                           outcome |-> "raised"]}]
    /\ UNCHANGED busRest

BusInit ==
    /\ CacheUnused
    /\ StoresInit
    /\ found_rows = FALSE
    /\ repo = "bus"
    /\ sequential = TRUE

BusNext ==
    \/ \E topic \in Topics : Publish(topic)
    \/ \E w \in BusProcs :
          \/ Startup(w)
          \/ Shutdown(w)
          \/ Dispatch(w)
          \/ HandlerReturn(w)
          \/ HandlerRaise(w)

\* a connected loop keeps taking messages, and a handler that was called ends
BusFairness ==
    \A w \in BusProcs :
        /\ WF_vars(Dispatch(w))
        /\ WF_vars(HandlerReturn(w) \/ HandlerRaise(w))

BusSpec == BusInit /\ [][BusNext]_vars /\ BusFairness

Handled(w, id) == \E e \in bus.log : e.w = w /\ e.id = id

\* C14: a handler that raises does not stop the dispatch loop: the loop of
\* that process goes on listening, every process keeps the messages it has
\* not handled yet, the other loops are untouched and nothing reaches the
\* publisher
C14_HandlerFailureIsIsolated ==
    [][\A w \in BusProcs :
          (\E e \in bus'.log \ bus.log : e.w = w /\ e.outcome = "raised")
          => /\ bus'.loop[w] = "listening"
             /\ bus'.inbox = bus.inbox
             /\ bus'.sent = bus.sent
             /\ \A v \in BusProcs \ {w} :
                    bus'.loop[v] = bus.loop[v] /\ bus'.running[v] = bus.running[v]]_vars

\* the handler of message 1 raised in w1, ran in w2 all the same, and w1
\* went on to handle message 2
C14_Witness ==
    /\ [w |-> "w1", id |-> 1, outcome |-> "raised"] \in bus.log
    /\ [w |-> "w2", id |-> 1, outcome |-> "returned"] \in bus.log
    /\ [w |-> "w1", id |-> 2, outcome |-> "returned"] \in bus.log

\* a message reaches no process that was not connected when it was published
NoReplay ==
    \A e \in bus.log : e.id \in 1..Len(bus.sent) /\ e.w \in bus.sent[e.id].to

\* C15 as stated: every published message is eventually dispatched to its
\* handler in each process connected at publish time, and never to a
\* process that subscribes later
C15_EveryMessageDispatched ==
    /\ \A id \in 1..MaxMsgs, w \in BusProcs :
           (Len(bus.sent) >= id /\ w \in bus.sent[id].to) ~> Handled(w, id)
    /\ []NoReplay

\* C15: every published message is eventually dispatched to its handler
\* in each process connected at publish time unless that process shuts
\* down first, and never to a process that subscribes later
C15_DispatchedUnlessShutDown ==
    /\ \A id \in 1..MaxMsgs, w \in BusProcs :
           (Len(bus.sent) >= id /\ w \in bus.sent[id].to)
               ~> (Handled(w, id) \/ bus.loop[w] = "down")
    /\ []NoReplay

\* message 1 was published while only w1 was connected and message 2 with
\* both: w1 has handled both, w2 only message 2
C15_Witness ==
    /\ Len(bus.sent) = 2
    /\ bus.sent[1].to = {"w1"}
    /\ bus.sent[2].to = {"w1", "w2"}
    /\ Handled("w1", 1) /\ Handled("w1", 2) /\ Handled("w2", 2)
    /\ ~Handled("w2", 1)
    /\ \A w \in BusProcs : bus.loop[w] = "listening" /\ bus.inbox[w] = <<>>

(***************************************************************************)
(* realistikgdps/repositories/account.py: the account lookup.  acct.db is  *)
(* the table accounts, acct.repo the dict account_repo (entries [k, v],    *)
(* oldest first), acct.req[p] the call of from_id that caller p is in:     *)
(* cached is what from_cache gave it, loads counts its calls of from_db.   *)
(***************************************************************************)
acctRest ==
    <<cacheVars, repo, sequential, found_rows, levels, meili, req, sync, pre, faulted,
      ncalls, marked, rebuilt, tables, bus, mem>>

AccountNames == {"u"}

\* Account(id=acc_db["accountID"], ..., messages_blocked=acc_db["mS"] == 1, ...)
AccountOfRow(row) ==
    [id |-> row.accountID, name |-> row.userName, messages_blocked |-> row.mS = 1]

\* SELECT ... FROM accounts WHERE accountID = :account_id
from_db(db, account_id) ==
    IF \E i \in 1..Len(db) : db[i].accountID = account_id
    THEN Returned(AccountOfRow(db[CHOOSE i \in 1..Len(db) : db[i].accountID = account_id]))
    ELSE ReturnNone

\* INSERT INTO accounts (...): the table numbers the row
into_db(db, name, messages_blocked) ==
    Append(db, [accountID |-> Len(db) + 1, userName |-> name,
                mS |-> IF messages_blocked THEN 1 ELSE 0])

\* account_repo[key] = value
AccountRepoSet(d, key, value) == DictSetItem(d, key, value)

\* account_repo[account.id] = account
into_cache(d, account) == AccountRepoSet(d, account.val.id, account)

\* account_repo.get(account_id)
from_cache(d, account_id) ==
    IF account_id \in DictKeys(d)
    THEN (CHOOSE e \in {d[i] : i \in 1..Len(d)} : e.k = account_id).v
    ELSE ReturnNone

\* `if account := ...`: None is falsy, an Account is truthy
Truthy(account) == account.kind = "value"

\* variant: what from_db returned is stored whether or not it is an account
StoreLoadedAlways(d, account_id, account) == AccountRepoSet(d, account_id, account)

\* if account := await from_db(account_id): into_cache(account)
StoreLoaded(d, account_id, account) ==
    IF Truthy(account) THEN into_cache(d, account) ELSE d

AcctIntoDb(name, messages_blocked) ==
    /\ repo = "accounts"
    /\ Len(acct.db) < MaxRows
    /\ acct' = [acct EXCEPT !.db = into_db(acct.db, name, messages_blocked)]
    /\ UNCHANGED acctRest

\* variant: a miss puts a placeholder into account_repo before it awaits
AcctFromIdBeginReserve(p, account_id) ==
    /\ repo = "accounts"
    /\ acct.req[p].pc = "idle"
    /\ LET account == from_cache(acct.repo, account_id)
       IN  acct' = [acct EXCEPT
                       !.repo = IF Truthy(account) THEN @
                                ELSE AccountRepoSet(@, account_id, ReturnNone),
                       !.req[p] =
                        [account_id |-> account_id,
                         pc |-> IF Truthy(account) THEN "done" ELSE "from_db",
                         ret |-> IF Truthy(account) THEN account ELSE Pending,
                         cached |-> account,
                         loads |-> 0]]
    /\ UNCHANGED acctRest

\* from_id up to its await: a hit returns, a miss goes on to from_db
AcctFromIdBegin(p, account_id) ==
    /\ repo = "accounts"
    /\ acct.req[p].pc = "idle"
    /\ LET account == from_cache(acct.repo, account_id)
       IN  acct' = [acct EXCEPT !.req[p] =
                        [account_id |-> account_id,
                         pc |-> IF Truthy(account) THEN "done" ELSE "from_db",
                         ret |-> IF Truthy(account) THEN account ELSE Pending,
                         cached |-> account,
                         loads |-> 0]]
    /\ UNCHANGED acctRest

\* from_id after its await: fetch_one answered, or raised
AcctFromDb(p) ==
    /\ repo = "accounts"
    /\ acct.req[p].pc = "from_db"
    /\ \/ LET account == from_db(acct.db, acct.req[p].account_id)
          IN  acct' = [acct EXCEPT
                          !.repo = StoreLoaded(acct.repo, acct.req[p].account_id, account),
                          !.req[p].pc = "done",
                          !.req[p].ret = account,
                          !.req[p].loads = @ + 1]
       \/ acct' = [acct EXCEPT !.req[p].pc = "done",
                               !.req[p].ret = Raised("fetch_one"),
                               !.req[p].loads = @ + 1]
    /\ UNCHANGED acctRest

\* the task is cancelled while from_id is suspended in `await from_db(...)`:
\* CancelledError is raised at the await and nothing after it runs
AcctAbandon(p) ==
    /\ repo = "accounts"
    /\ acct.req[p].pc = "from_db"
    /\ acct' = [acct EXCEPT !.req[p].pc = "done",
                            !.req[p].ret = Raised("CancelledError"),
                            !.req[p].loads = @ + 1]
    /\ UNCHANGED acctRest

AcctReturn(p) ==
    /\ repo = "accounts"
    /\ acct.req[p].pc = "done"
    /\ acct' = [acct EXCEPT !.req[p] = AcctIdle]
    /\ UNCHANGED acctRest

AcctInit ==
    /\ CacheUnused
    /\ StoresInit
    /\ found_rows = FALSE
    /\ repo = "accounts"
    /\ sequential = TRUE

AcctNext ==
    \/ \E name \in AccountNames, messages_blocked \in BOOLEAN :
          AcctIntoDb(name, messages_blocked)
    \/ \E p \in Procs :
          \/ \E account_id \in 1..MaxRows : AcctFromIdBegin(p, account_id)
          \/ AcctFromDb(p)
          \/ AcctAbandon(p)
          \/ AcctReturn(p)

AcctSpec == AcctInit /\ [][AcctNext]_vars

\* C16: a call of from_id that finds the account in account_repo returns
\* the cached account, calls from_db not at all and leaves account_repo as
\* it was; a call that misses calls from_db exactly once, returns what it
\* gave, and after it account_repo holds the key exactly if from_db gave
\* an account or the key was put there meanwhile; None is never stored
C16_LookupThroughCache ==
    [][\A p \in Procs :
          (acct.req[p].ret = Pending /\ acct'.req[p].ret # Pending) =>
              LET r == acct'.req[p]
                  account_id == r.account_id
              IN  /\ IF Truthy(r.cached)
                     THEN /\ r.loads = 0
                          /\ r.ret = from_cache(acct.repo, account_id)
                          /\ acct'.repo = acct.repo
                     ELSE /\ r.loads = 1
                          /\ r.ret.kind # "error" => r.ret = from_db(acct.db, account_id)
                          /\ Truthy(r.ret) =>
                                 from_cache(acct'.repo, account_id) = r.ret
                          /\ account_id \in DictKeys(acct'.repo)
                                 <=> (Truthy(r.ret) \/ account_id \in DictKeys(acct.repo))
                          /\ ~Truthy(r.ret) => acct'.repo = acct.repo
                  /\ \A i \in 1..Len(acct'.repo) : Truthy(acct'.repo[i].v)
      ]_vars

\* p2 missed, loaded account 1 from the table and cached it; p1 then asked
\* for account 1 and was answered from account_repo without a load; a
\* lookup of an absent account left nothing behind
C16_Witness ==
    /\ repo = "accounts"
    /\ acct.req["p2"].pc = "done" /\ acct.req["p2"].account_id = 1
    /\ ~Truthy(acct.req["p2"].cached) /\ acct.req["p2"].loads = 1
    /\ Truthy(acct.req["p2"].ret)
    /\ acct.req["p1"].pc = "done" /\ acct.req["p1"].account_id = 1
    /\ Truthy(acct.req["p1"].cached) /\ acct.req["p1"].loads = 0
    /\ acct.req["p1"].ret = acct.req["p2"].ret
    /\ DictKeys(acct.repo) = {1}
    /\ Len(acct.db) = 1

(***************************************************************************)
(* The four cache classes under the same calls: a behaviour calls either   *)
(* the two LRU caches or the two simple caches.                            *)
(***************************************************************************)
AllCachesInit ==
    /\ CacheInit
    /\ StoresInit
    /\ found_rows = FALSE
    /\ repo \in {"lru", "simple"}
    /\ repo = "simple" => capacity = 1
    /\ sequential = TRUE

AllCachesNext ==
    \/ repo = "lru" /\ CacheNext
    \/ repo = "simple" /\ SimpleNext

AllCachesSpec == AllCachesInit /\ [][AllCachesNext]_vars

\* the dicts of the two caches the behaviour calls
SyncDict == IF repo = "simple" THEN scache ELSE cache

AsyncDict == IF repo = "simple" THEN sacache ELSE acache

\* str(key), written out for the keys of the model
StringForm(key) == IF key.t = "int" THEN IntToStr(key.n) ELSE key.s

StringForms == {StringForm(key) : key \in RawKeys}

\* C17: in each of the four caches, a get that directly follows set(k1, v)
\* with str(k1) = str(k2) returns v, a delete(k2) that directly follows it
\* removes the entry, and every entry is held under a string form, once
C17_KeysAddressedByStringForm ==
    [][/\ (lastOp.op = "set" /\ StringForm(lastOp.key) = StringForm(lastOp'.key)) =>
             /\ lastOp'.op = "get" =>
                    lastOp'.ret = lastOp.value /\ lastOp'.aret = lastOp.value
             /\ lastOp'.op = "delete" =>
                    /\ StringForm(lastOp.key) \in DictKeys(SyncDict)
                    /\ StringForm(lastOp.key) \in DictKeys(AsyncDict)
                    /\ StringForm(lastOp.key) \notin DictKeys(SyncDict')
                    /\ StringForm(lastOp.key) \notin DictKeys(AsyncDict')
       /\ \A d \in {cache', acache', scache', sacache'} :
             /\ DictKeys(d) \subseteq StringForms
             /\ Cardinality(DictKeys(d)) = Len(d)
      ]_vars

\* set(1, "a") was followed by get("1"), which returned "a" from both
\* simple caches, while the cache holds another entry as well
C17_Witness ==
    /\ repo = "simple"
    /\ lastOp.op = "get"
    /\ lastOp.key = StrKey("1")
    /\ lastOp.prevSet = [t |-> "int", value |-> "a"]
    /\ lastOp.ret = "a" /\ lastOp.aret = "a"
    /\ Len(scache) = 2 /\ Len(sacache) = 2

\* set("2", "b") was followed by delete(2) on the LRU caches, which removed
\* the entry
C17_WitnessDelete ==
    /\ repo = "lru"
    /\ lastOp.op = "delete"
    /\ lastOp.key = IntKey(2)
    /\ lastOp.prevSet = [t |-> "str", value |-> "b"]
    /\ lastOp.present
    /\ "2" \notin DictKeys(cache) \cup DictKeys(acache)

(***************************************************************************)
(* The value-copying caches with values that can be mutated.  A value is   *)
(* an object with an attribute and a list: mem.objs[i] is object "o"i,     *)
(* its attr the attribute and its child the index in mem.lists of its      *)
(* list.  The dicts hold references.  mem.held is the reference the caller *)
(* kept from its last call: the argument of set ("arg") or the result of   *)
(* get ("ret").                                                            *)
(***************************************************************************)
memRest ==
    <<acache, sacache, recency, lastOp, repo, sequential, found_rows, levels, meili, req,
      sync, pre, faulted, ncalls, marked, rebuilt, tables, bus, acct>>

Attrs == {"a", "b"}

RefName(i) == "o" \o IntToStr(i)

Deref(m, ref) == CHOOSE i \in 1..Len(m.objs) : RefName(i) = ref

\* copy(ref): a new object with the same attributes, the list among them
copy(m, ref) ==
    [m EXCEPT !.objs = Append(@, m.objs[Deref(m, ref)]),
              !.held = RefName(Len(m.objs) + 1),
              !.origin = "ret"]

\* copy(None) is None
ReturnCopy(m, value) ==
    IF value = None THEN [m EXCEPT !.held = None, !.origin = ""] ELSE copy(m, value)

\* the caller makes an object and calls set(key, obj) on both caches
ObjSet(key, attr, item) ==
    /\ repo = "objects"
    /\ Len(mem.objs) < MaxObjects
    /\ LET obj == RefName(Len(mem.objs) + 1)
       IN  /\ mem' = [objs |-> Append(mem.objs, [attr |-> attr, child |-> Len(mem.lists) + 1]),
                      lists |-> Append(mem.lists, item),
                      held |-> obj,
                      origin |-> "arg"]
           /\ cache' = LRUSet(cache, capacity, key, obj)
           /\ scache' = SimpleSet(scache, key, obj)
    /\ UNCHANGED <<capacity, memRest>>

\* LRUMemoryCache.get(key)
ObjGetLRU(key) ==
    /\ repo = "objects"
    /\ LRUGetReturn(cache, key) # None => Len(mem.objs) < MaxObjects
    /\ cache' = LRUGet(cache, key)
    /\ mem' = ReturnCopy(mem, LRUGetReturn(cache, key))
    /\ UNCHANGED <<capacity, scache, memRest>>

\* SimpleMemoryCache.get(key)
ObjGetSimple(key) ==
    /\ repo = "objects"
    /\ SimpleGetReturn(scache, key) # None => Len(mem.objs) < MaxObjects
    /\ mem' = ReturnCopy(mem, SimpleGetReturn(scache, key))
    /\ UNCHANGED <<capacity, cache, scache, memRest>>

ObjDelete(key) ==
    /\ repo = "objects"
    /\ cache' = LRUDelete(cache, key)
    /\ scache' = SimpleDelete(scache, key)
    /\ mem' = [mem EXCEPT !.held = None, !.origin = ""]
    /\ UNCHANGED <<capacity, memRest>>

\* the caller assigns an attribute of the object it holds
SetAttr(attr) ==
    /\ repo = "objects"
    /\ mem.held # None
    /\ mem' = [mem EXCEPT !.objs[Deref(mem, mem.held)].attr = attr]
    /\ UNCHANGED <<capacity, cache, scache, memRest>>

\* the caller changes the list of the object it holds
SetItem(item) ==
    /\ repo = "objects"
    /\ mem.held # None
    /\ mem' = [mem EXCEPT !.lists[mem.objs[Deref(mem, mem.held)].child] = item]
    /\ UNCHANGED <<capacity, cache, scache, memRest>>

ObjInit ==
    /\ CacheInit
    /\ StoresInit
    /\ found_rows = FALSE
    /\ repo = "objects"
    /\ sequential = TRUE

ObjNext ==
    \/ \E key \in RawKeys, attr \in Attrs, item \in Attrs : ObjSet(key, attr, item)
    \/ \E key \in RawKeys : ObjGetLRU(key)
    \/ \E key \in RawKeys : ObjGetSimple(key)
    \/ \E key \in RawKeys : ObjDelete(key)
    \/ \E attr \in Attrs : SetAttr(attr)
    \/ \E item \in Attrs : SetItem(item)

ObjSpec == ObjInit /\ [][ObjNext]_vars

\* what the object a get of key returns looks like: <<>> for None
Observed(m, d, key) ==
    LET value == DictGet(d, _ensure_key_type(key))
    IN  IF value = None THEN <<>>
        ELSE <<m.objs[Deref(m, value)].attr, m.lists[m.objs[Deref(m, value)].child]>>

\* C18: a step that is not a set or a delete and not a get that reorders
\* entries, such as the caller mutating the object it passed to set or the
\* object a get returned, does not change what a get of any key returns
\* from the LRU cache or from the simple cache
C18_NoChangeThroughAlias ==
    [][(cache' = cache /\ scache' = scache) =>
          \A key \in RawKeys :
              /\ Observed(mem', cache', key) = Observed(mem, cache, key)
              /\ Observed(mem', scache', key) = Observed(mem, scache, key)
      ]_vars

\* C19: an LRU cache made with capacity >= 1 never holds more entries than
\* its capacity, and when a set has returned the cache holds the key with
\* the value that was set; in both LRU caches
C19_SizeWithinCapacity ==
    /\ capacity >= 1
    /\ Len(cache) <= capacity
    /\ Len(acache) <= capacity
    /\ lastOp.op = "set" =>
           /\ <<_ensure_key_type(lastOp.key), lastOp.value>> \in DictMap(cache)
           /\ <<_ensure_key_type(lastOp.key), lastOp.value>> \in DictMap(acache)

\* a set of the oldest key of a full cache of two: the loop evicted that
\* entry, the set put it back as the newest, and the cache is full again
C19_Witness ==
    /\ lastOp.op = "set"
    /\ lastOp.present
    /\ lastOp.size = capacity
    /\ capacity = 2
    /\ Len(cache) = 2 /\ Len(acache) = 2
    /\ cache[2] = [k |-> _ensure_key_type(lastOp.key), v |-> lastOp.value]
    /\ lastOp.value = "b"

\* C20: under the same calls of get, set and delete, each synchronous
\* cache and its asynchronous variant hold the same entries in the same
\* order, which is their eviction order, and every call returns the same
\* value from both
C20_SyncAndAsyncAgree ==
    /\ cache = acache
    /\ scache = sacache
    /\ lastOp.ret = lastOp.aret

\* a get that hit on both LRU caches, full with two entries, returned "a"
\* from both and left the key as the newest entry of both
C20_Witness ==
    /\ repo = "lru"
    /\ lastOp.op = "get"
    /\ lastOp.ret = "a" /\ lastOp.aret = "a"
    /\ capacity = 2
    /\ Len(cache) = 2 /\ Len(acache) = 2
    /\ acache[2].k = _ensure_key_type(lastOp.key)
    /\ acache[1].v = "b"

\* a get that hit on both simple caches after three sets and a delete
C20_WitnessSimple ==
    /\ repo = "simple"
    /\ lastOp.op = "get"
    /\ lastOp.ret = "b" /\ lastOp.aret = "b"
    /\ Len(scache) = 2 /\ Len(sacache) = 2

\* the rows the UPDATE of the call in r affected, as execute reports them
AffectedRows(rows, r) == ChangedRows(rows, r.level_id, r.obj)

\* the supplied fields in index form, with the id
IndexForm(r) ==
    LET fields == DOMAIN r.obj
        flags == IF "search_flags" \in fields THEN FLAG_FIELDS ELSE {}
    IN  [f \in fields \cup flags \cup {"id"} |->
            IF f = "id" THEN r.level_id
            ELSE IF f = "upload_ts" THEN r.obj[f].dt
            ELSE IF f = "epic" THEN HasFlag(r.obj["search_flags"], EPIC)
            ELSE IF f = "magic" THEN HasFlag(r.obj["search_flags"], MAGIC)
            ELSE IF f = "awarded" THEN HasFlag(r.obj["search_flags"], AWARDED)
            ELSE IF f = "legendary" THEN HasFlag(r.obj["search_flags"], LEGENDARY)
            ELSE IF f = "mythical" THEN HasFlag(r.obj["search_flags"], MYTHICAL)
            ELSE r.obj[f]]

\* LevelRepository.update_partial, when it has returned: absent exactly
\* when no row was affected, and then nothing was sent to the index;
\* otherwise one document of the id and the supplied fields was sent and
\* the row as it is now was returned
LevelUpdateReturns ==
    \A p \in Procs :
        (req[p].op = "update_partial" /\ req[p].ret.kind \in {"None", "value"}) =>
            IF AffectedRows(pre.levels, req[p]) = 0
            THEN /\ req[p].ret = ReturnNone
                 /\ req[p].mcalls = 0
                 /\ meili = pre.meili
            ELSE /\ req[p].mcalls = 1
                 /\ meili = MeiliUpdateDocument(pre.meili, IndexForm(req[p]))
                 /\ req[p].ret = Returned(LevelOfRow(levels[req[p].level_id]))

\* user_relationship.update_partial, when it has returned: absent exactly
\* when no row was affected
RelUpdateReturns ==
    \A p \in Procs :
        (req[p].op = "user_relationship.update_partial"
            /\ req[p].ret.kind \in {"None", "value"}) =>
            (req[p].ret = ReturnNone
                <=> AffectedRows(pre.user_relationships, req[p]) = 0)

\* C21: update_partial returns absent exactly when the UPDATE affected no
\* row, and then sends nothing to the index; otherwise it sends one update
\* document of the id and the supplied fields in index form and returns
\* the record as re-read; in the level and the relationship repository
C21_UpdatePartialAbsentIffNoRowAffected ==
    /\ LevelUpdateReturns
    /\ RelUpdateReturns

\* the step sends a document to the index on behalf of caller p
SendsDocument(p) ==
    /\ req[p].op \in {"create", "update_partial"}
    /\ req'[p].mcalls = req[p].mcalls + 1
    /\ meili' # meili

\* C22: a document that create or update_partial sends is stored under, and
\* carries, the id of the row it comes from (the id the INSERT assigned,
\* the id argument of update_partial), that row exists, no other document
\* changes, and no step changes the id of a row
C22_DocumentCarriesRowId ==
    [][/\ \A p \in Procs :
             SendsDocument(p) =>
                 LET id == req[p].level_id
                 IN  /\ id \in 1..Len(levels)
                     /\ levels[id]["id"] = id
                     /\ req[p].op = "create" => levels[id]["name"] = req[p].obj["name"]
                     /\ DOMAIN meili' = DOMAIN meili \cup {id}
                     /\ meili'[id]["id"] = id
                     /\ \A i \in DOMAIN meili \ {id} : meili'[i] = meili[i]
       /\ Len(levels') >= Len(levels)
       /\ \A i \in 1..Len(levels) : levels'[i]["id"] = levels[i]["id"]
       /\ \A i \in 1..Len(levels') : levels'[i]["id"] = i
       /\ \A i \in DOMAIN meili' : meili'[i]["id"] = i
      ]_vars

\* two levels were created and level 2 was then given five stars: both
\* documents carry the ids of their rows, and the update went to document 2
C22_Witness ==
    /\ Len(levels) = 2
    /\ DOMAIN meili = {1, 2}
    /\ meili[1]["id"] = 1 /\ meili[2]["id"] = 2
    /\ \A i \in {1, 2} : "stars" \in DOMAIN meili[i]
    /\ meili[2]["stars"] = 5 /\ levels[2]["stars"] = 5
    /\ meili[1]["stars"] = 0 /\ levels[1]["stars"] = 0

(***************************************************************************)
(* Abandoned lookups and interleaved cache calls.  A behaviour either      *)
(* runs callers of account.from_id, which can be cancelled at the await,   *)
(* or coroutines calling the LRU caches: a cache method has no await, so   *)
(* each call is one step whatever the interleaving of the coroutines.      *)
(***************************************************************************)
AtomicInit ==
    /\ CacheInit
    /\ StoresInit
    /\ found_rows = FALSE
    /\ repo \in {"accounts", "lru"}
    /\ repo = "accounts" => capacity = 1
    /\ sequential = TRUE

AtomicNext ==
    \/ repo = "accounts" /\ AcctNext
    \/ repo = "lru" /\ CacheNext

AtomicSpec == AtomicInit /\ [][AtomicNext]_vars

\* C23: a from_id that is abandoned at its await leaves account_repo as it
\* was (neither running up to the await nor being cancelled there changes
\* it), and between the calls that coroutines make on one asynchronous
\* cache it never holds more than capacity entries and every key it holds
\* has a whole value
C23_AbandonedLookupLeavesCache ==
    [][/\ \A p \in Procs :
             /\ (acct.req[p].pc = "idle" /\ acct'.req[p].pc = "from_db") =>
                    acct'.repo = acct.repo
             /\ (acct.req[p].pc = "from_db"
                    /\ acct'.req[p].ret = Raised("CancelledError")) =>
                    acct'.repo = acct.repo
       /\ \A i \in 1..Len(acct'.repo) : Truthy(acct'.repo[i].v)
       /\ Len(acache') <= capacity
       /\ \A i \in 1..Len(acache') :
             /\ acache'[i].v \in CacheValues
             /\ acache'[i].k \in StringForms
      ]_vars

\* account 1 is in the table, p1 asked for it, missed and was cancelled at
\* the fetch: account_repo is still empty
C23_Witness ==
    /\ repo = "accounts"
    /\ Len(acct.db) >= 1
    /\ acct.req["p1"].account_id = 1
    /\ acct.req["p1"].ret = Raised("CancelledError")
    /\ acct.req["p2"].pc = "idle"
    /\ acct.repo = <<>>

\* an asynchronous cache of capacity 2 that is full after a set
C23_WitnessCache ==
    /\ repo = "lru"
    /\ capacity = 2
    /\ Len(acache) = 2
    /\ lastOp.op = "set"
    /\ lastOp.size = 2

\* the clock values at which the calls of a behaviour are made
CallTimes == {Datetime(now) : now \in Times}

\* C24: a record that create has returned, made without a timestamp
\* argument, carries a clock value read during that call: upload_ts of a
\* level, claimed_ts of a daily chest, post_ts of a user relationship
C24_DefaultTimestampIsCallTime ==
    \A p \in Procs :
        req[p].ret.kind = "value" =>
            /\ req[p].op = "create" => req[p].ret.val["upload_ts"] \in CallTimes
            /\ req[p].op = "daily_chest.create" =>
                   req[p].ret.val["claimed_ts"] \in CallTimes
            /\ req[p].op = "user_relationship.create" =>
                   req[p].ret.val["post_ts"] \in CallTimes

\* the levels with the given name (and user id), deleted or not
Matching(name, user_ids) ==
    {i \in 1..Len(levels) : levels[i]["name"] = name /\ levels[i]["user_id"] \in user_ids}

\* C25: with include_deleted = true, from_name and from_name_and_user_id
\* return a level with the given name (and user id) whether or not it is
\* marked deleted, and return none only when no level matches
C25_IncludeDeletedReturnsMatch ==
    \A name \in Names :
        /\ \A r \in LevelFromName(levels, name, TRUE) :
               IF Matching(name, {1, 2}) = {} THEN r = ReturnNone
               ELSE \E i \in Matching(name, {1, 2}) : r = Returned(LevelOfRow(levels[i]))
        /\ \A user_id \in {1, 2} :
               \A r \in LevelFromNameAndUserId(levels, name, user_id, TRUE) :
                   IF Matching(name, {user_id}) = {} THEN r = ReturnNone
                   ELSE \E i \in Matching(name, {user_id}) :
                            r = Returned(LevelOfRow(levels[i]))

(***************************************************************************)
(* The translation between a level and its index document, applied to      *)
(* every combination of search flags.  pre keeps the level and the         *)
(* members of LevelSearchFlag that its search_flags was made of.           *)
(***************************************************************************)
LevelSearchFlag == {EPIC, AWARDED, MAGIC, LEGENDARY, MYTHICAL}

\* a | b | ... of the members
RECURSIVE FlagsOf(_)
FlagsOf(members) ==
    IF members = {} THEN 0
    ELSE LET m == CHOOSE x \in members : TRUE
         IN  m + FlagsOf(members \ {m})

\* _make_meili_dict(level.model_dump())
MakeMeiliDict(p, members, length, deleted) ==
    /\ repo = "translation"
    /\ ~Running(req[p])
    /\ LET level == [id |-> 1, name |-> "Cube Rush", user_id |-> 1, length |-> length,
                     publicity |-> PUBLIC, upload_ts |-> Datetime(1), stars |-> 0,
                     search_flags |-> FlagsOf(members), deleted |-> deleted]
       IN  /\ req' = [req EXCEPT ![p] =
                         [Idle EXCEPT !.op = "_make_meili_dict", !.obj = level,
                                      !.ret = Returned(_make_meili_dict(level))]]
           /\ pre' = [level |-> level, members |-> members]
    /\ UNCHANGED <<repo, sequential, found_rows, levels, meili, sync, faulted, ncalls,
                   idleVars>>

\* _from_meili_dict(doc) of the document just made
FromMeiliDict(p) ==
    /\ repo = "translation"
    /\ req[p].op = "_make_meili_dict"
    /\ req' = [req EXCEPT ![p] =
                  [Idle EXCEPT !.op = "_from_meili_dict", !.obj = req[p].ret.val,
                               !.ret = Returned(_from_meili_dict(req[p].ret.val))]]
    /\ UNCHANGED <<repo, sequential, found_rows, levels, meili, sync, pre, faulted, ncalls,
                   idleVars>>

TranslationInit ==
    /\ CacheUnused
    /\ StoresInit
    /\ found_rows = FALSE
    /\ repo = "translation"
    /\ sequential = TRUE

TranslationNext ==
    \/ \E members \in SUBSET LevelSearchFlag, length \in {TINY, MEDIUM}, deleted \in BOOLEAN :
          MakeMeiliDict("p1", members, length, deleted)
    \/ FromMeiliDict("p1")
    \/ repo = "translation" /\ Return("p1")

TranslationSpec == TranslationInit /\ [][TranslationNext]_vars

\* C26: for every combination of the five search flags, _make_meili_dict
\* gives five booleans, each telling whether its flag is in the
\* combination, and _from_meili_dict of that document gives back the same
\* search_flags
C26_FlagsRoundTrip ==
    /\ req["p1"].op = "_make_meili_dict" =>
           LET doc == req["p1"].ret.val
           IN  /\ FLAG_FIELDS \subseteq DOMAIN doc
               /\ doc["epic"] = (EPIC \in pre.members)
               /\ doc["awarded"] = (AWARDED \in pre.members)
               /\ doc["magic"] = (MAGIC \in pre.members)
               /\ doc["legendary"] = (LEGENDARY \in pre.members)
               /\ doc["mythical"] = (MYTHICAL \in pre.members)
    /\ req["p1"].op = "_from_meili_dict" =>
           /\ req["p1"].ret.val["search_flags"] = FlagsOf(pre.members)
           /\ req["p1"].ret.val["search_flags"] = pre.level["search_flags"]

\* the combination AWARDED | LEGENDARY went through both translations
C26_Witness ==
    /\ req["p1"].op = "_from_meili_dict"
    /\ pre.members = {AWARDED, LEGENDARY}
    /\ req["p1"].obj["awarded"] /\ req["p1"].obj["legendary"]
    /\ ~req["p1"].obj["epic"] /\ ~req["p1"].obj["magic"] /\ ~req["p1"].obj["mythical"]
    /\ req["p1"].ret.val["search_flags"] = AWARDED + LEGENDARY

(***************************************************************************)
(* One caller of the level repository, whose calls follow one another,     *)
(* and the rebuild, which may run while a call of the caller is suspended. *)
(***************************************************************************)
OverlapInit ==
    /\ CacheUnused
    /\ StoresInit
    /\ repo = "levels"
    /\ sequential = FALSE

OverlapNext ==
    \/ LevelCall("p1", {MEDIUM}, {FALSE})
    \/ SyncCall

OverlapSpec == OverlapInit /\ [][OverlapNext]_vars

\* an update_partial of an existing record and a rebuild have both
\* completed, and no store call has failed
BothCompleted(p) ==
    /\ sync.pc = "done"
    /\ req[p].op = "update_partial"
    /\ req[p].ret.kind \in {"None", "value"}
    /\ req[p].level_id \in 1..Len(levels)
    /\ ~faulted

InStep(id) ==
    /\ id \in DOMAIN meili
    /\ meili[id] = _make_meili_dict(LevelOfRow(levels[id]))

SetOfHeldKey == lastOp'.op = "set" /\ lastOp'.present

\* the keys a set of a held key leaves: unchanged below capacity, and on a
\* full cache the oldest entry goes before the key is stored
KeysAfterSetOfHeld(d, cap, key_str) ==
    IF Len(d) < cap
    THEN DictKeys(d)
    ELSE (DictKeys(d) \ {d[1].k}) \cup {key_str}

C29_UpdateValueStores ==
    \A p \in Procs :
        (req[p].op = "like.update_value" /\ req[p].ret = ReturnNone
            /\ req[p].level_id \in 1..Len(user_likes)) =>
            LET like_id == req[p].level_id
                v == req[p].obj["value"]
                like == LikeFromId(user_likes, like_id)
            IN  /\ user_likes[like_id]["value"] = v
                /\ like.kind = "value"
                /\ like.val["value"] = v
                /\ sum_by_target(user_likes, Enum(1), 1) = SumOfValues(user_likes)

(***************************************************************************)
(* The user comment use cases (rgdps/usecases/user_comments.py): create    *)
(* and delete, over repositories.user_comment.                             *)
(***************************************************************************)
\* a member of rgdps.constants.errors.ServiceError
ServiceError(name) == [error |-> name]

COMMENTS_INVALID_CONTENT == ServiceError("COMMENTS_INVALID_CONTENT")
COMMENTS_NOT_FOUND == ServiceError("COMMENTS_NOT_FOUND")
COMMENTS_INVALID_OWNER == ServiceError("COMMENTS_INVALID_OWNER")

MAX_CONTENT == 255

UserIds == {1, 2}

\* len(content) of the comments callers send
ContentLengths == {1, MAX_CONTENT + 1}

commentRest ==
    <<repo, sequential, found_rows, levels, meili, sync, user_relationships, user_likes,
      daily_chests, marked, rebuilt, cacheVars, bus, acct, mem>>

\* variant: the owner is not looked at
InvalidOwnerNever(comment, user_id) == FALSE

\* comment.user_id != user.id
InvalidOwner(comment, user_id) == comment["user_id"] # user_id

\* repositories.user_comment.from_id found a row with the id
CommentFound(rows, comment_id) == comment_id \in 1..Len(rows)

\* user_comments.create(user, content)
CommentCreate(p, user_id, content, now) ==
    /\ CanBeginOn("user_comments", p)
    /\ Len(user_comments) < MaxRows
    /\ ncalls' = ncalls + 1
    /\ pre' = Snapshot
    /\ LET r == [Idle EXCEPT !.op = "user_comments.create", !.step = 1,
                             !.obj = [user |-> user_id]]
           new_id == Len(user_comments) + 1
           comment == [id |-> new_id, user_id |-> user_id, content |-> content,
                       likes |-> 0, post_ts |-> Datetime(now), deleted |-> FALSE]
       IN  IF content > MAX_CONTENT
           THEN /\ req' = [req EXCEPT ![p] =
                              [r EXCEPT !.ret = Returned(COMMENTS_INVALID_CONTENT)]]
                /\ UNCHANGED <<user_comments, faulted>>
           ELSE \/ /\ user_comments' = Append(user_comments, comment)
                   /\ req' = [req EXCEPT ![p] =
                                 [r EXCEPT !.ret = Returned(comment),
                                           !.level_id = new_id, !.writes = 1]]
                   /\ UNCHANGED faulted
                \/ /\ req' = [req EXCEPT ![p] = [r EXCEPT !.ret = Raised("create")]]
                   /\ faulted' = TRUE
                   /\ UNCHANGED user_comments
    /\ UNCHANGED commentRest

\* user_comments.delete(user, comment_id), to the end of the two checks:
\* comment = await repositories.user_comment.from_id(comment_id)
CommentDeleteFromId(p, user_id, comment_id) ==
    /\ CanBeginOn("user_comments", p)
    /\ ncalls' = ncalls + 1
    /\ pre' = Snapshot
    /\ LET r == [Idle EXCEPT !.op = "user_comments.delete", !.step = 1,
                             !.level_id = comment_id, !.obj = [user |-> user_id]]
       IN  \/ /\ req' = [req EXCEPT ![p] =
                    IF ~CommentFound(user_comments, comment_id)
                    THEN [r EXCEPT !.ret = Returned(COMMENTS_NOT_FOUND)]
                    ELSE IF InvalidOwner(user_comments[comment_id], user_id)
                    THEN [r EXCEPT !.ret = Returned(COMMENTS_INVALID_OWNER)]
                    ELSE [r EXCEPT !.step = 2,
                                   !.obj = [user |-> user_id,
                                            comment |-> [user_comments[comment_id]
                                                            EXCEPT !["deleted"] = TRUE]]]]
              /\ UNCHANGED faulted
           \/ /\ req' = [req EXCEPT ![p] = [r EXCEPT !.ret = Raised("from_id")]]
              /\ faulted' = TRUE
    /\ UNCHANGED <<user_comments, commentRest>>

\* await repositories.user_comment.update(comment); return comment
CommentDeleteUpdate(p) ==
    /\ repo = "user_comments"
    /\ req[p].op = "user_comments.delete"
    /\ req[p].step = 2
    /\ req[p].ret = Pending
    /\ LET comment == req[p].obj["comment"]
       IN  \/ /\ user_comments' = [user_comments EXCEPT ![comment["id"]] = comment]
              /\ req' = [req EXCEPT ![p] =
                            [@ EXCEPT !.step = 3, !.writes = 1, !.ret = Returned(comment)]]
              /\ UNCHANGED faulted
           \/ /\ req' = [req EXCEPT ![p].ret = Raised("update")]
              /\ faulted' = TRUE
              /\ UNCHANGED user_comments
    /\ UNCHANGED <<pre, ncalls, commentRest>>

CommentCall(p) ==
    \/ \E user_id \in UserIds, content \in ContentLengths, now \in Times :
          CommentCreate(p, user_id, content, now)
    \/ \E user_id \in UserIds, comment_id \in 1..MaxRows :
          CommentDeleteFromId(p, user_id, comment_id)
    \/ CommentDeleteUpdate(p)
    \/ Return(p)

\* callers whose use cases may overlap
CommentInit ==
    /\ CacheUnused
    /\ StoresInit
    /\ repo = "user_comments"
    /\ sequential = FALSE

CommentNext == \E p \in Procs : CommentCall(p)

CommentSpec == CommentInit /\ [][CommentNext]_vars

\* caller p's delete makes its lookup and its checks in this step
DeleteLooksUp(p) == req[p].op = "idle" /\ req'[p].op = "user_comments.delete"

ReturnsError(r, e) == r.ret.kind = "value" /\ r.ret.val = e

C30_WitnessNotFound ==
    /\ repo = "user_comments"
    /\ \E p \in Procs :
           /\ req[p].op = "user_comments.delete"
           /\ ~CommentFound(user_comments, req[p].level_id)
           /\ ReturnsError(req[p], COMMENTS_NOT_FOUND)

====
